---- MODULE Spec2Model ----
(***************************************************************************)
(* A model of the SubStation Alpha v4+ parser and serializer of sub-tools   *)
(* (src/src/ass.rs).  Text is modelled as TLA+ strings, one character per  *)
(* position; a document is parsed line by line exactly as the two entry    *)
(* points Ass::from_reader and <Ass as FromStr>::from_str do it, and is     *)
(* written back by Ass::save_to_writer.                                    *)
(*                                                                         *)
(* Alphabet: printable ASCII plus CR and TAB.     The character "~" does   *)
(* not occur literally in any modelled input; it stands for U+FEFF, the    *)
(* byte order mark (3 bytes in UTF-8, not white space, not ASCII).         *)
(***************************************************************************)
EXTENDS Integers, Sequences, FiniteSets, TLC

(***************************************************************************)
(* Bounds of the model.                                                    *)
(***************************************************************************)
\* the number of lines of an input text
MaxLines == 5

(***************************************************************************)
(* Characters and strings (Rust's str methods used by the parser).         *)
(***************************************************************************)
BOM == "~"

\* the printable ASCII characters in code order: codes 32..95 and 97..125
\* (code 96, the grave accent, is not part of the alphabet)
AsciiLow == " !\"#$%&'()*+,-./0123456789:;<=>?@ABCDEFGHIJKLMNOPQRSTUVWXYZ[\\]^_"
AsciiHigh == "abcdefghijklmnopqrstuvwxyz{|}"

CharAt(s, i) == SubSeq(s, i, i)

\* the first position >= i at which p occurs in s, 0 if none
RECURSIVE FindFrom(_, _, _)
FindFrom(s, p, i) ==
  IF i + Len(p) - 1 > Len(s) THEN 0
  ELSE IF SubSeq(s, i, i + Len(p) - 1) = p THEN i
  ELSE FindFrom(s, p, i + 1)

\* str::find: the 1-based position of the first occurrence of p in s, 0 if none
Find(s, p) == FindFrom(s, p, 1)

\* the UTF-8 bytes of a character: its code for ASCII, EF BB BF for the BOM
Bytes(c) ==
  IF c = BOM THEN <<239, 187, 191>>
  ELSE IF c = "\t" THEN <<9>>
  ELSE IF c = "\r" THEN <<13>>
  ELSE IF Find(AsciiLow, c) > 0 THEN <<31 + Find(AsciiLow, c)>>
  ELSE <<96 + Find(AsciiHigh, c)>>

\* str::len: the length in bytes
len(s) == Len(s) + 2 * Cardinality({i \in 1..Len(s) : CharAt(s, i) = BOM})

\* `s.as_bytes().iter().all(|b| (lo..end).contains(b))`
all_bytes_in(s, lo, end) ==
  \A i \in 1..Len(s) :
    \A j \in 1..Len(Bytes(CharAt(s, i))) : Bytes(CharAt(s, i))[j] \in lo..(end - 1)

starts_with(s, p) == Len(s) >= Len(p) /\ SubSeq(s, 1, Len(p)) = p
ends_with(s, p) == Len(s) >= Len(p) /\ SubSeq(s, Len(s) - Len(p) + 1, Len(s)) = p

\* Option<&str> is modelled as a record [some |-> BOOLEAN, v |-> the string]
None == [some |-> FALSE, v |-> ""]
Some(x) == [some |-> TRUE, v |-> x]

strip_prefix(s, p) ==
  IF starts_with(s, p) THEN Some(SubSeq(s, Len(p) + 1, Len(s))) ELSE None
strip_suffix(s, p) ==
  IF ends_with(s, p) THEN Some(SubSeq(s, 1, Len(s) - Len(p))) ELSE None

\* str::split_once: <<before, after>> around the first occurrence of p
split_once(s, p) ==
  LET i == Find(s, p)
  IN  IF i = 0 THEN [some |-> FALSE, v |-> <<"", "">>]
      ELSE [some |-> TRUE,
            v |-> <<SubSeq(s, 1, i - 1), SubSeq(s, i + Len(p), Len(s))>>]

\* str::split: every piece between occurrences of p ("" gives <<"">>)
RECURSIVE split(_, _)
split(s, p) ==
  LET i == Find(s, p)
  IN  IF i = 0 THEN <<s>>
      ELSE <<SubSeq(s, 1, i - 1)>> \o split(SubSeq(s, i + Len(p), Len(s)), p)

\* str::splitn: at most n pieces, the last one holding the remainder
RECURSIVE splitn(_, _, _)
splitn(n, s, p) ==
  LET i == Find(s, p)
  IN  IF n = 0 THEN <<>>
      ELSE IF n = 1 \/ i = 0 THEN <<s>>
      ELSE <<SubSeq(s, 1, i - 1)>> \o splitn(n - 1, SubSeq(s, i + Len(p), Len(s)), p)

\* char::is_whitespace restricted to the alphabet
is_whitespace(c) == c \in {" ", "\t", "\r", "\n"}

RECURSIVE trim_end(_)
trim_end(s) ==
  IF s # "" /\ is_whitespace(CharAt(s, Len(s)))
  THEN trim_end(SubSeq(s, 1, Len(s) - 1)) ELSE s

\* one item of str::lines / BufRead::lines: the text between two "\n" with
\* one trailing "\r" removed
lines_item(raw) ==
  IF ends_with(raw, "\r") THEN SubSeq(raw, 1, Len(raw) - 1) ELSE raw

(***************************************************************************)
(* Numbers: FromStr and Display of the unsigned integers and of f32.       *)
(* The checker's integers are 32 bits wide, so a limit of an integer type  *)
(* is given by its decimal digits and compared digit by digit; the numbers *)
(* of the modelled inputs have at most 9 significant digits.               *)
(***************************************************************************)
U8_MAX == "255"
U16_MAX == "65535"
U32_MAX == "4294967295"
U64_MAX == "18446744073709551615"

HexVal(c) ==
  IF Find("0123456789ABCDEF", c) > 0 THEN Find("0123456789ABCDEF", c) - 1
  ELSE IF Find("abcdef", c) > 0 THEN Find("abcdef", c) + 9
  ELSE -1

AllDigits(s, radix) ==
  /\ s # ""
  /\ \A i \in 1..Len(s) : HexVal(CharAt(s, i)) \in 0..(radix - 1)

RECURSIVE DigitsValue(_, _)
DigitsValue(s, radix) ==
  IF s = "" THEN 0
  ELSE DigitsValue(SubSeq(s, 1, Len(s) - 1), radix) * radix + HexVal(CharAt(s, Len(s)))

RECURSIVE strip_zeros(_)
strip_zeros(s) == IF Len(s) > 1 /\ starts_with(s, "0") THEN strip_zeros(Tail(s)) ELSE s

\* a <= b for two digit strings without leading zeros
RECURSIVE DigitsLeq(_, _)
DigitsLeq(a, b) ==
  IF Len(a) # Len(b) THEN Len(a) < Len(b)
  ELSE IF a = "" THEN TRUE
  ELSE IF HexVal(CharAt(a, 1)) # HexVal(CharAt(b, 1))
       THEN HexVal(CharAt(a, 1)) < HexVal(CharAt(b, 1))
  ELSE DigitsLeq(Tail(a), Tail(b))

\* <uN as FromStr>::from_str: an optional "+", then decimal digits, the
\* value at most max; -1 models Err
parse_uint(s, max) ==
  LET d == IF starts_with(s, "+") THEN Tail(s) ELSE s
  IN  IF AllDigits(d, 10) /\ DigitsLeq(strip_zeros(d), max)
      THEN DigitsValue(strip_zeros(d), 10) ELSE -1

RECURSIVE to_dec(_)
to_dec(n) ==
  IF n < 10 THEN CharAt("0123456789", n + 1)
  ELSE to_dec(n \div 10) \o CharAt("0123456789", (n % 10) + 1)

\* {:02}
pad2(n) == IF n < 10 THEN "0" \o to_dec(n) ELSE to_dec(n)

\* {:02X}
hex2(b) == CharAt("0123456789ABCDEF", (b \div 16) + 1) \o CharAt("0123456789ABCDEF", (b % 16) + 1)

RECURSIVE Pow10(_)
Pow10(k) == IF k = 0 THEN 1 ELSE 10 * Pow10(k - 1)

\* An f32 is modelled by the decimal it was read from: the value is
\* (-1)^neg * m / 10^k with no trailing zero in the fraction.  Covers the
\* literals [+-]digits[.digits]; exponents, inf and NaN are outside the
\* modelled inputs.
F32(neg, m, k) == [neg |-> neg, m |-> m, k |-> k]

RECURSIVE f32_normal(_)
f32_normal(f) ==
  IF f.k > 0 /\ f.m % 10 = 0 THEN f32_normal(F32(f.neg, f.m \div 10, f.k - 1)) ELSE f

NoF32 == [neg |-> FALSE, m |-> -1, k |-> 0]

\* <f32 as FromStr>::from_str; NoF32 models Err
parse_f32(s) ==
  LET neg  == starts_with(s, "-")
      body == IF starts_with(s, "-") \/ starts_with(s, "+") THEN Tail(s) ELSE s
      dot  == Find(body, ".")
      w    == IF dot = 0 THEN body ELSE SubSeq(body, 1, dot - 1)
      fr   == IF dot = 0 THEN "" ELSE SubSeq(body, dot + 1, Len(body))
  IN  IF /\ w \o fr # ""
         /\ AllDigits(w \o fr, 10)
      THEN f32_normal(F32(neg, DigitsValue(w \o fr, 10), Len(fr)))
      ELSE NoF32

RECURSIVE zero_pad(_, _)
zero_pad(s, width) == IF Len(s) >= width THEN s ELSE zero_pad("0" \o s, width)

\* <f32 as Display>::fmt: the shortest decimal that reads back as the value
f32_to_string(f) ==
  (IF f.neg THEN "-" ELSE "")
    \o to_dec(f.m \div Pow10(f.k))
    \o (IF f.k = 0 THEN "" ELSE "." \o zero_pad(to_dec(f.m % Pow10(f.k)), f.k))

(***************************************************************************)
(* Errors (ErrorKind, Error).                                              *)
(***************************************************************************)
ErrorKind == {"Io", "Invalid", "MissingScriptInfo", "MissingStyleFormat",
              "InvalidStyle", "InvalidEventType", "InvalidEvent"}

Error(kind, line) == [kind |-> kind, line |-> line]

\* Error::from_kind, used by both From impls
from_kind(kind) == Error(kind, 0)

\* Error::with_line
with_line(e, line) == Error(e.kind, line)

(***************************************************************************)
(* Line and its classifier.                                                *)
(***************************************************************************)
Variable(s) == [tag |-> "Variable", s |-> s]
Comment(s) == [tag |-> "Comment", s |-> s]
Encoded(s) == [tag |-> "Encoded", s |-> s]
Empty == [tag |-> "Empty", s |-> ""]
\* the None of Option<Line>
NoLine == [tag |-> "None", s |-> ""]

ENCODED_MAX_LEN == 80
ENCODED_MIN_BYTE == 33
ENCODED_END_BYTE == 97

\* Line::parse that looks for `: ` before the leading `;`
Line_parse_variable_first(s) ==
  IF s = "" THEN Empty
  ELSE IF split_once(s, ": ").some THEN Variable(s)
  ELSE IF strip_prefix(s, ";").some THEN Comment(strip_prefix(s, ";").v)
  ELSE IF len(s) <= ENCODED_MAX_LEN /\ all_bytes_in(s, ENCODED_MIN_BYTE, ENCODED_END_BYTE)
       THEN Encoded(s)
  ELSE NoLine

\* Line::parse
Line_parse(s) ==
  IF s = "" THEN Empty
  ELSE IF strip_prefix(s, ";").some THEN Comment(strip_prefix(s, ";").v)
  ELSE IF split_once(s, ": ").some THEN Variable(s)
  ELSE IF len(s) <= ENCODED_MAX_LEN /\ all_bytes_in(s, ENCODED_MIN_BYTE, ENCODED_END_BYTE)
       THEN Encoded(s)
  ELSE NoLine

\* Line::item
item(line) ==
  IF line.tag = "Variable" THEN split_once(line.s, ": ")
  ELSE [some |-> FALSE, v |-> <<"", "">>]

\* Line::is_empty, Line::is_encoded
is_empty(line) == line.tag = "Empty"
is_encoded(line) == line.tag = "Encoded"

\* to_ass that writes a comment without its `;`
Line_to_ass_bare(line) ==
  CASE line.tag = "Variable" -> line.s
    [] line.tag = "Comment" -> line.s
    [] line.tag = "Encoded" -> line.s
    [] line.tag = "Empty" -> ""

\* <Line as ToAss>::to_ass: the text written before the line break
Line_to_ass(line) ==
  CASE line.tag = "Variable" -> line.s
    [] line.tag = "Comment" -> ";" \o line.s
    [] line.tag = "Encoded" -> line.s
    [] line.tag = "Empty" -> ""

(***************************************************************************)
(* Colour.                                                                 *)
(***************************************************************************)
Colour(r, g, b, a) == [red |-> r, green |-> g, blue |-> b, alpha |-> a]
from_rgb(r, g, b) == Colour(r, g, b, 0)
WHITE == from_rgb(255, 255, 255)
BLACK == from_rgb(0, 0, 0)
RED == from_rgb(255, 0, 0)
NoColour == Colour(-1, -1, -1, -1)

\* from_ass that takes the digit pairs as red, green, blue, alpha
from_ass_rgba(s) ==
  LET rest == strip_prefix(s, "&H")
      d    == IF starts_with(rest.v, "+") THEN Tail(rest.v) ELSE rest.v
      h    == zero_pad(strip_zeros(d), 8)
  IN  IF rest.some /\ AllDigits(d, 16) /\ Len(strip_zeros(d)) <= 8
      THEN Colour(DigitsValue(SubSeq(h, 1, 2), 16), DigitsValue(SubSeq(h, 3, 4), 16),
                  DigitsValue(SubSeq(h, 5, 6), 16), DigitsValue(SubSeq(h, 7, 8), 16))
      ELSE NoColour

\* Colour::from_ass: "&H", then u32::from_str_radix(rest, 16); the 32-bit
\* number is kept as its 8 hex digits AABBGGRR.  NoColour models None.
from_ass(s) ==
  LET rest == strip_prefix(s, "&H")
      d    == IF starts_with(rest.v, "+") THEN Tail(rest.v) ELSE rest.v
      h    == zero_pad(strip_zeros(d), 8)
  IN  IF rest.some /\ AllDigits(d, 16) /\ Len(strip_zeros(d)) <= 8
      THEN Colour(DigitsValue(SubSeq(h, 7, 8), 16), DigitsValue(SubSeq(h, 5, 6), 16),
                  DigitsValue(SubSeq(h, 3, 4), 16), DigitsValue(SubSeq(h, 1, 2), 16))
      ELSE NoColour

\* <Colour as Display>::fmt
Colour_to_string(c) == "&H" \o hex2(c.alpha) \o hex2(c.blue) \o hex2(c.green) \o hex2(c.red)

(***************************************************************************)
(* Style and the styles section.                                           *)
(***************************************************************************)
\* <Style as Default>::default
Style_default ==
  [name |-> "Default", font_name |-> "Arial", font_size |-> 20,
   primary_colour |-> WHITE, secondary_colour |-> RED,
   outline_colour |-> BLACK, background_colour |-> BLACK,
   bold |-> FALSE, italic |-> FALSE, underline |-> FALSE, striked |-> FALSE,
   scale_x |-> F32(FALSE, 100, 0), scale_y |-> F32(FALSE, 100, 0),
   spacing |-> F32(FALSE, 0, 0), angle |-> F32(FALSE, 0, 0),
   border_style |-> 1, outline |-> F32(FALSE, 2, 0), shadow |-> F32(FALSE, 2, 0),
   alignment |-> 2, margin_l |-> 10, margin_r |-> 10, margin_v |-> 10,
   encoding |-> 1]

\* the Format names of a style and the field each one sets
StyleFieldOf ==
  [Name |-> "name", Fontname |-> "font_name", Fontsize |-> "font_size",
   PrimaryColour |-> "primary_colour", SecondaryColour |-> "secondary_colour",
   OutlineColour |-> "outline_colour", BackColour |-> "background_colour",
   Bold |-> "bold", Italic |-> "italic", Underline |-> "underline",
   StrikeOut |-> "striked", ScaleX |-> "scale_x", ScaleY |-> "scale_y",
   Spacing |-> "spacing", Angle |-> "angle", BorderStyle |-> "border_style",
   Outline |-> "outline", Shadow |-> "shadow", Alignment |-> "alignment",
   MarginL |-> "margin_l", MarginR |-> "margin_r", MarginV |-> "margin_v",
   Encoding |-> "encoding"]

\* `.ok()?` and `?` on a parsed token: whether it parsed, and the value
uint_ok(n) == [some |-> n # -1, v |-> n]
colour_ok(c) == [some |-> c # NoColour, v |-> c]
f32_ok(f) == [some |-> f # NoF32, v |-> f]

\* one arm of the match in style_from_format: the value stored for a known
\* name, and whether the token parsed
StyleValue(name, value) ==
  CASE name \in {"Name", "Fontname"} -> [some |-> TRUE, v |-> value]
    [] name \in {"Fontsize", "BorderStyle", "Alignment", "Encoding"} ->
         uint_ok(parse_uint(value, U8_MAX))
    [] name \in {"PrimaryColour", "SecondaryColour", "OutlineColour", "BackColour"} ->
         colour_ok(from_ass(value))
    [] name \in {"Bold", "Italic", "Underline", "StrikeOut"} ->
         [some |-> TRUE, v |-> value # "0"]
    [] name \in {"ScaleX", "ScaleY", "Spacing", "Angle", "Outline", "Shadow"} ->
         f32_ok(parse_f32(value))
    [] name \in {"MarginL", "MarginR", "MarginV"} ->
         uint_ok(parse_uint(value, U16_MAX))

Min(a, b) == IF a < b THEN a ELSE b

\* the loop of style_from_format over zip(format, tokens), from pair i on
RECURSIVE style_zip(_, _, _, _)
RECURSIVE style_set(_, _, _, _, _)
style_zip(format, tokens, i, style) ==
  IF i > Min(Len(format), Len(tokens)) THEN [some |-> TRUE, v |-> style]
  ELSE IF format[i] \notin DOMAIN StyleFieldOf
       THEN style_zip(format, tokens, i + 1, style)
  ELSE style_set(format, tokens, i, style, StyleValue(format[i], tokens[i]))

\* the end of one turn of that loop: `?` on the parsed token, then the
\* assignment to the field
style_set(format, tokens, i, style, parsed) ==
  IF ~parsed.some THEN [some |-> FALSE, v |-> style]
  ELSE style_zip(format, tokens, i + 1,
         [style EXCEPT ![StyleFieldOf[format[i]]] = parsed.v])

\* style_from_format building on a zeroed Style instead of Style::default()
style_from_format_zeroed(format, data) ==
  style_zip(format, split(data, ","), 1,
    [name |-> "", font_name |-> "", font_size |-> 0,
     primary_colour |-> BLACK, secondary_colour |-> BLACK,
     outline_colour |-> BLACK, background_colour |-> BLACK,
     bold |-> FALSE, italic |-> FALSE, underline |-> FALSE, striked |-> FALSE,
     scale_x |-> F32(FALSE, 0, 0), scale_y |-> F32(FALSE, 0, 0),
     spacing |-> F32(FALSE, 0, 0), angle |-> F32(FALSE, 0, 0),
     border_style |-> 0, outline |-> F32(FALSE, 0, 0), shadow |-> F32(FALSE, 0, 0),
     alignment |-> 0, margin_l |-> 0, margin_r |-> 0, margin_v |-> 0,
     encoding |-> 0])

\* StylesSection::style_from_format
style_from_format(format, data) ==
  style_zip(format, split(data, ","), 1, Style_default)

flag(b) == IF b THEN "1" ELSE "0"

\* <Style as ToAss>::to_ass
Style_to_ass(st) ==
  "Style: " \o st.name \o "," \o st.font_name \o "," \o to_dec(st.font_size)
    \o "," \o Colour_to_string(st.primary_colour)
    \o "," \o Colour_to_string(st.secondary_colour)
    \o "," \o Colour_to_string(st.outline_colour)
    \o "," \o Colour_to_string(st.background_colour)
    \o "," \o flag(st.bold) \o "," \o flag(st.italic)
    \o "," \o flag(st.underline) \o "," \o flag(st.striked)
    \o "," \o f32_to_string(st.scale_x) \o "," \o f32_to_string(st.scale_y)
    \o "," \o f32_to_string(st.spacing) \o "," \o f32_to_string(st.angle)
    \o "," \o to_dec(st.border_style)
    \o "," \o f32_to_string(st.outline) \o "," \o f32_to_string(st.shadow)
    \o "," \o to_dec(st.alignment)
    \o "," \o to_dec(st.margin_l) \o "," \o to_dec(st.margin_r)
    \o "," \o to_dec(st.margin_v) \o "," \o to_dec(st.encoding)

STYLES_FORMAT == "Format: Name, Fontname, Fontsize, PrimaryColour, SecondaryColour, OutlineColour, BackColour, Bold, Italic, Underline, StrikeOut, ScaleX, ScaleY, Spacing, Angle, BorderStyle, Outline, Shadow, Alignment, MarginL, MarginR, MarginV, Encoding"

\* a StylesSection created with the canonical Format already in force
StylesSection_new_with_format ==
  [kind |-> "Styles", title |-> "", lines |-> <<>>,
   format |-> split(SubSeq(STYLES_FORMAT, 9, Len(STYLES_FORMAT)), ", "),
   styles |-> <<>>, events |-> <<>>]

\* StylesSection::new, and the Section::Styles wrapper around it
StylesSection_new ==
  [kind |-> "Styles", title |-> "", lines |-> <<>>, format |-> <<>>,
   styles |-> <<>>, events |-> <<>>]

\* the Result<(), Error> of a handler: the section afterwards, or the error
Ok(sec) == [ok |-> TRUE, panic |-> FALSE, err |-> from_kind("Invalid"), sec |-> sec]
Err(kind, sec) == [ok |-> FALSE, panic |-> FALSE, err |-> from_kind(kind), sec |-> sec]
Panic(sec) == [ok |-> FALSE, panic |-> TRUE, err |-> from_kind("Invalid"), sec |-> sec]

\* a push that stores the default style for a row that could not be mapped
StylesSection_push_default(sec, style) ==
  IF ~style.some THEN Ok([sec EXCEPT !.styles = Append(@, Style_default)])
  ELSE Ok([sec EXCEPT !.styles = Append(@, style.v)])

\* `.ok_or(InvalidStyle)?` on the mapped row, then `self.styles.push(style)`
StylesSection_push(sec, style) ==
  IF ~style.some THEN Err("InvalidStyle", sec)
  ELSE Ok([sec EXCEPT !.styles = Append(@, style.v)])

\* process_line whose Format line adds its names to the ones in force
StylesSection_item_extend(sec, kv) ==
  IF ~kv.some THEN Err("Invalid", sec)
  ELSE IF kv.v[1] = "Format" THEN Ok([sec EXCEPT !.format = @ \o split(kv.v[2], ", ")])
  ELSE IF kv.v[1] = "Style" THEN
    IF sec.format = <<>> THEN Err("MissingStyleFormat", sec)
    ELSE StylesSection_push(sec, style_from_format(sec.format, kv.v[2]))
  ELSE Err("Invalid", sec)

\* the rest of process_line, on the (key, value) of the line
StylesSection_item(sec, kv) ==
  IF ~kv.some THEN Err("Invalid", sec)
  ELSE IF kv.v[1] = "Format" THEN Ok([sec EXCEPT !.format = split(kv.v[2], ", ")])
  ELSE IF kv.v[1] = "Style" THEN
    IF sec.format = <<>> THEN Err("MissingStyleFormat", sec)
    ELSE StylesSection_push(sec, style_from_format(sec.format, kv.v[2]))
  ELSE Err("Invalid", sec)

\* <StylesSection as SectionParse>::process_line
StylesSection_process_line(sec, line) ==
  IF is_empty(line) THEN Ok(sec) ELSE StylesSection_item(sec, item(line))

\* <StylesSection as ToAss>::to_ass, one element per written line
StylesSection_to_ass(sec) ==
  <<"[V4+ Styles]", STYLES_FORMAT>> \o [i \in 1..Len(sec.styles) |-> Style_to_ass(sec.styles[i])]

(***************************************************************************)
(* Durations and timestamps.  A Duration is [secs, nanos], nanos < 10^9.   *)
(***************************************************************************)
Duration(secs, nanos) == [secs |-> secs, nanos |-> nanos]
ZERO == Duration(0, 0)

\* (a * b) mod m without an intermediate above 2 * m
RECURSIVE mul_mod(_, _, _)
mul_mod(a, b, m) ==
  IF b = 0 THEN 0
  ELSE LET h == mul_mod((2 * (a % m)) % m, b \div 2, m)
       IN  IF b % 2 = 1 THEN (h + (a % m)) % m ELSE h

\* the largest cs for which cs * 10_000_000 fits a u32 (4294967295 / 10^7)
CS_NO_OVERFLOW_MAX == 429

\* Duration::new(secs, cs * 10_000_000) with the product taken in u32.
\* 10^7 = 128 * 78125 and 2^32 = 128 * 2^25, so the wrapped product is
\* 128 * ((cs * 78125) mod 2^25) and 10^9 nanoseconds are 7812500 units of 128.
Duration_new_cs(secs, cs) ==
  LET units == mul_mod(cs, 78125, 33554432)
  IN  Duration(secs + (units \div 7812500), (units % 7812500) * 128)

\* the Option<Duration> of ass_timestamp_to_duration, or a panic
NoDuration == [some |-> FALSE, panic |-> FALSE, v |-> ZERO]

\* the end of ass_timestamp_to_duration: `?` on each parsed number in turn
\* (n is the count of items of `units`, -1 a failed parse), then Duration::new
timestamp_new(n, hours, minutes, seconds, cs, overflow_checks) ==
  IF hours = -1 THEN NoDuration
  ELSE IF n < 2 \/ minutes = -1 THEN NoDuration
  ELSE IF n < 3 \/ seconds = -1 THEN NoDuration
  ELSE IF cs = -1 THEN NoDuration
  ELSE IF cs > CS_NO_OVERFLOW_MAX /\ overflow_checks
       THEN [some |-> FALSE, panic |-> TRUE, v |-> ZERO]
  ELSE [some |-> TRUE, panic |-> FALSE,
        v |-> Duration_new_cs(hours * 3600 + minutes * 60 + seconds, cs)]

\* the parses of ass_timestamp_to_duration, on the items of `units`
timestamp_units(units, subsec, overflow_checks) ==
  timestamp_new(Len(units), parse_uint(units[1], U64_MAX), parse_uint(units[2], U64_MAX),
                parse_uint(units[3], U64_MAX), parse_uint(subsec, U32_MAX),
                overflow_checks)

\* `s.split_once('.')?` then `ts.splitn(3, ':')`
timestamp_split(sp, overflow_checks) ==
  IF ~sp.some THEN NoDuration
  ELSE timestamp_units(splitn(3, sp.v[1], ":"), sp.v[2], overflow_checks)

\* ass_timestamp_to_duration; overflow_checks tells whether the build traps
\* the overflow of cs * 10_000_000 (debug) or wraps it (release)
ass_timestamp_to_duration(s, overflow_checks) ==
  timestamp_split(split_once(s, "."), overflow_checks)

\* the Display of AssDuration rounding to the nearest centisecond
AssDuration_to_string_rounded(d) ==
  LET centi == d.secs * 100 + ((d.nanos + 5000000) \div 10000000)
  IN  to_dec(centi \div 360000) \o ":" \o pad2((centi \div 6000) % 60)
        \o ":" \o pad2((centi \div 100) % 60) \o "." \o pad2(centi % 100)

\* <AssDuration as Display>::fmt
AssDuration_to_string(d) ==
  LET centi == d.secs * 100 + (d.nanos \div 10000000)
  IN  to_dec(centi \div 360000) \o ":" \o pad2((centi \div 6000) % 60)
        \o ":" \o pad2((centi \div 100) % 60) \o "." \o pad2(centi % 100)

(***************************************************************************)
(* Event and the events section.                                           *)
(***************************************************************************)
EventKinds == {"Dialogue", "Comment", "Movie", "Sound", "Picture"}

\* <Event as Default>::default
Event_default ==
  [kind |-> "Dialogue", layer |-> 0, start |-> ZERO, end |-> ZERO,
   style |-> "Default", name |-> "", margin_l |-> 0, margin_r |-> 0,
   margin_v |-> 0, effect |-> "", text |-> ""]

EventFieldOf ==
  [Layer |-> "layer", Start |-> "start", End |-> "end", Style |-> "style",
   Name |-> "name", MarginL |-> "margin_l", MarginR |-> "margin_r",
   MarginV |-> "margin_v", Effect |-> "effect", Text |-> "text"]

\* `.ok()?` on a parsed integer of an event row
event_uint_ok(n) == [some |-> n # -1, panic |-> FALSE, v |-> n]

\* one arm of the match in event_from_format
EventValue(name, value, overflow_checks) ==
  CASE name = "Layer" -> event_uint_ok(parse_uint(value, U8_MAX))
    [] name \in {"Start", "End"} -> ass_timestamp_to_duration(value, overflow_checks)
    [] name \in {"Style", "Name", "Effect", "Text"} ->
         [some |-> TRUE, panic |-> FALSE, v |-> value]
    [] name \in {"MarginL", "MarginR", "MarginV"} -> event_uint_ok(parse_uint(value, U16_MAX))

\* the loop of event_from_format over zip(format, tokens), from pair i on
RECURSIVE event_zip(_, _, _, _, _)
RECURSIVE event_set(_, _, _, _, _, _)
event_zip(format, tokens, i, event, overflow_checks) ==
  IF i > Min(Len(format), Len(tokens)) THEN [some |-> TRUE, panic |-> FALSE, v |-> event]
  ELSE IF format[i] \notin DOMAIN EventFieldOf
       THEN event_zip(format, tokens, i + 1, event, overflow_checks)
  ELSE event_set(format, tokens, i, event,
                 EventValue(format[i], tokens[i], overflow_checks), overflow_checks)

\* the end of one turn of that loop: `?` on the parsed token, then the
\* assignment to the field
event_set(format, tokens, i, event, parsed, overflow_checks) ==
  IF ~parsed.some THEN [some |-> FALSE, panic |-> parsed.panic, v |-> event]
  ELSE event_zip(format, tokens, i + 1,
         [event EXCEPT ![EventFieldOf[format[i]]] = parsed.v], overflow_checks)

\* event_from_format that splits the row at every comma
event_from_format_split(format, kind, data, overflow_checks) ==
  event_zip(format, split(data, ","), 1,
            [Event_default EXCEPT !.kind = kind], overflow_checks)

\* EventsSection::event_from_format
event_from_format(format, kind, data, overflow_checks) ==
  event_zip(format, splitn(Len(format), data, ","), 1,
            [Event_default EXCEPT !.kind = kind], overflow_checks)

\* <Event as ToAss>::to_ass
Event_to_ass(e) ==
  e.kind \o ": " \o to_dec(e.layer) \o "," \o AssDuration_to_string(e.start)
    \o "," \o AssDuration_to_string(e.end) \o "," \o e.style \o "," \o e.name
    \o "," \o to_dec(e.margin_l) \o "," \o to_dec(e.margin_r)
    \o "," \o to_dec(e.margin_v) \o "," \o e.effect \o "," \o e.text

EVENTS_FORMAT == "Format: Layer, Start, End, Style, Name, MarginL, MarginR, MarginV, Effect, Text"

\* Duration::from_secs_f32(seconds.abs()), for a value that is a whole number
\* of nanoseconds and that f32 holds exactly
from_secs_f32_abs(f) ==
  Duration(f.m \div Pow10(f.k), (f.m % Pow10(f.k)) * Pow10(9 - f.k))

\* `seconds < 0.0`: false for -0.0
f32_is_negative(f) == f.neg /\ f.m # 0

\* Duration::saturating_sub
saturating_sub(a, b) ==
  IF a.secs < b.secs \/ (a.secs = b.secs /\ a.nanos < b.nanos) THEN ZERO
  ELSE IF a.nanos >= b.nanos THEN Duration(a.secs - b.secs, a.nanos - b.nanos)
  ELSE Duration(a.secs - b.secs - 1, a.nanos + 1000000000 - b.nanos)

\* Duration::saturating_add; the sum of two modelled durations stays far
\* below Duration::MAX
saturating_add(a, b) ==
  IF a.nanos + b.nanos >= 1000000000
  THEN Duration(a.secs + b.secs + 1, a.nanos + b.nanos - 1000000000)
  ELSE Duration(a.secs + b.secs, a.nanos + b.nanos)

\* shift_by that moves forward whatever the sign
shift_by_abs(event, seconds) ==
  [event EXCEPT !.start = saturating_add(@, from_secs_f32_abs(seconds)),
                !.end = saturating_add(@, from_secs_f32_abs(seconds))]

\* Event::shift_by
shift_by(event, seconds) ==
  IF f32_is_negative(seconds)
  THEN [event EXCEPT !.start = saturating_sub(@, from_secs_f32_abs(seconds)),
                     !.end = saturating_sub(@, from_secs_f32_abs(seconds))]
  ELSE [event EXCEPT !.start = saturating_add(@, from_secs_f32_abs(seconds)),
                     !.end = saturating_add(@, from_secs_f32_abs(seconds))]

\* EventsSection::new, and the Section::Events wrapper around it
EventsSection_new ==
  [kind |-> "Events", title |-> "", lines |-> <<>>, format |-> <<>>,
   styles |-> <<>>, events |-> <<>>]

\* `.ok_or(InvalidStyle)?` on the mapped row, then `self.events.push(event)`
EventsSection_push(sec, event) ==
  IF event.panic THEN Panic(sec)
  ELSE IF ~event.some THEN Err("InvalidStyle", sec)
  ELSE Ok([sec EXCEPT !.events = Append(@, event.v)])

\* the rest of process_line that looks at the format before the event kind
EventsSection_item_format_first(sec, kv, overflow_checks) ==
  IF ~kv.some THEN Err("Invalid", sec)
  ELSE IF kv.v[1] = "Format" THEN Ok([sec EXCEPT !.format = split(kv.v[2], ", ")])
  ELSE IF sec.format = <<>> THEN Err("MissingStyleFormat", sec)
  ELSE IF kv.v[1] \notin EventKinds THEN Err("InvalidEventType", sec)
  ELSE EventsSection_push(sec, event_from_format(sec.format, kv.v[1], kv.v[2], overflow_checks))

\* the rest of process_line, on the (key, value) of the line
EventsSection_item(sec, kv, overflow_checks) ==
  IF ~kv.some THEN Err("Invalid", sec)
  ELSE IF kv.v[1] = "Format" THEN Ok([sec EXCEPT !.format = split(kv.v[2], ", ")])
  ELSE IF kv.v[1] \notin EventKinds THEN Err("InvalidEventType", sec)
  ELSE IF sec.format = <<>> THEN Err("MissingStyleFormat", sec)
  ELSE EventsSection_push(sec, event_from_format(sec.format, kv.v[1], kv.v[2], overflow_checks))

\* <EventsSection as SectionParse>::process_line
EventsSection_process_line(sec, line, overflow_checks) ==
  IF is_empty(line) THEN Ok(sec) ELSE EventsSection_item(sec, item(line), overflow_checks)

\* <EventsSection as ToAss>::to_ass
EventsSection_to_ass(sec) ==
  <<"[Events]", EVENTS_FORMAT>> \o [i \in 1..Len(sec.events) |-> Event_to_ass(sec.events[i])]

(***************************************************************************)
(* ScriptInfo and GenericSection.                                          *)
(***************************************************************************)
\* ScriptInfo::new
ScriptInfo_new ==
  [kind |-> "ScriptInfo", title |-> "", lines |-> <<>>, format |-> <<>>,
   styles |-> <<>>, events |-> <<>>]

\* process_line that stores every line
ScriptInfo_process_line_any(sec, line) == Ok([sec EXCEPT !.lines = Append(@, line)])

\* <ScriptInfo as SectionParse>::process_line
ScriptInfo_process_line(sec, line) ==
  IF is_encoded(line) THEN Err("Invalid", sec)
  ELSE Ok([sec EXCEPT !.lines = Append(@, line)])

\* <ScriptInfo as ToAss>::to_ass
ScriptInfo_to_ass(sec) ==
  <<"[Script Info]">> \o [i \in 1..Len(sec.lines) |-> Line_to_ass(sec.lines[i])]

\* GenericSection::new
GenericSection_new(title) ==
  [kind |-> "Generic", title |-> title, lines |-> <<>>, format |-> <<>>,
   styles |-> <<>>, events |-> <<>>]

\* <GenericSection as SectionParse>::process_line
GenericSection_process_line(sec, line) ==
  Ok([sec EXCEPT !.lines = Append(@, line)])

\* <GenericSection as ToAss>::to_ass
GenericSection_to_ass(sec) ==
  <<"[" \o sec.title \o "]">> \o [i \in 1..Len(sec.lines) |-> Line_to_ass(sec.lines[i])]

(***************************************************************************)
(* Section: dispatch to the handlers and to the writers.                   *)
(***************************************************************************)
\* <Section as SectionParse>::process_line
process_line(sec, line, overflow_checks) ==
  CASE sec.kind = "ScriptInfo" -> ScriptInfo_process_line(sec, line)
    [] sec.kind = "Styles" -> StylesSection_process_line(sec, line)
    [] sec.kind = "Generic" -> GenericSection_process_line(sec, line)
    [] sec.kind = "Events" -> EventsSection_process_line(sec, line, overflow_checks)

\* to_ass that ends no block with a blank line
Section_to_ass_no_blank(sec) ==
  CASE sec.kind = "ScriptInfo" -> ScriptInfo_to_ass(sec)
    [] sec.kind = "Styles" -> StylesSection_to_ass(sec)
    [] sec.kind = "Events" -> EventsSection_to_ass(sec)
    [] sec.kind = "Generic" -> GenericSection_to_ass(sec)

\* <Section as ToAss>::to_ass
Section_to_ass(sec) ==
  CASE sec.kind = "ScriptInfo" -> ScriptInfo_to_ass(sec)
    [] sec.kind = "Styles" -> StylesSection_to_ass(sec) \o <<"">>
    [] sec.kind = "Events" -> EventsSection_to_ass(sec) \o <<"">>
    [] sec.kind = "Generic" -> GenericSection_to_ass(sec)

\* Ass::save_to_writer: the lines written, each one ended by a line break
RECURSIVE save_to_writer(_)
save_to_writer(sections) ==
  IF sections = <<>> THEN <<>>
  ELSE Section_to_ass(Head(sections)) \o save_to_writer(Tail(sections))

\* get_generic_section_title
get_generic_section_title(s) ==
  IF strip_prefix(s, "[").some THEN strip_suffix(strip_prefix(s, "[").v, "]") ELSE None

(***************************************************************************)
(* The two parse entry points.  The outcome of a parse, or of one turn of  *)
(* its loop, is [tag, sections, err]: "Continue" (the loop goes on), "Ok"  *)
(* (the Document is returned), "Err" (an Error is returned, the sections   *)
(* are dropped) or "Panic" (the thread is aborted).                        *)
(***************************************************************************)
NoError == Error("Invalid", 0)
Continue(sections) == [tag |-> "Continue", sections |-> sections, err |-> NoError]
Returned(sections) == [tag |-> "Ok", sections |-> sections, err |-> NoError]
Failed(err) == [tag |-> "Err", sections |-> <<>>, err |-> err]
Aborted == [tag |-> "Panic", sections |-> <<>>, err |-> NoError]

SCRIPT_INFO == "[Script Info]"

\* map_err that drops a rejected line like an unclassifiable one
map_err_skipping(sections, r, line_number) ==
  IF r.panic THEN Aborted
  ELSE IF ~r.ok THEN Continue(sections)
  ELSE Continue([sections EXCEPT ![Len(sections)] = r.sec])

\* `.map_err(|e| e.with_line(line_number))?` on the handler's result r
map_err(sections, r, line_number) ==
  IF r.panic THEN Aborted
  ELSE IF ~r.ok THEN Failed(with_line(r.err, line_number))
  ELSE Continue([sections EXCEPT ![Len(sections)] = r.sec])

\* forward_parsed that rejects an unclassifiable line
forward_parsed_strict(sections, parsed, line_number, overflow_checks) ==
  IF parsed = NoLine THEN Failed(Error("Invalid", line_number))
  ELSE map_err(sections, process_line(sections[Len(sections)], parsed, overflow_checks),
               line_number)

\* `let Some(parsed) = Line::parse(&line) else { continue }`, then the handler
forward_parsed(sections, parsed, line_number, overflow_checks) ==
  IF parsed = NoLine THEN Continue(sections)
  ELSE map_err(sections, process_line(sections[Len(sections)], parsed, overflow_checks),
               line_number)

\* `sections.last_mut()` then `section.process_line(parsed).map_err(..)?`
forward(sections, line, line_number, overflow_checks) ==
  forward_parsed(sections, Line_parse(line), line_number, overflow_checks)

\* the body of the loop of Ass::from_reader
from_reader_body(sections, line, line_number, overflow_checks) ==
  IF line = "[V4+ Styles]" THEN Continue(Append(sections, StylesSection_new))
  ELSE IF line = "[Events]" THEN Continue(Append(sections, EventsSection_new))
  ELSE IF get_generic_section_title(line).some
       THEN Continue(Append(sections, GenericSection_new(get_generic_section_title(line).v)))
  ELSE IF sections # <<>> THEN forward(sections, line, line_number, overflow_checks)
  ELSE Failed(Error("Invalid", line_number))

\* the first read of Ass::from_reader: buf is the first raw line with its
\* line break, or empty at the end of the input
from_reader_first(buf) ==
  LET cleaned == trim_end(IF strip_prefix(buf, BOM).some
                          THEN strip_prefix(buf, BOM).v ELSE buf)
  IN  IF cleaned = SCRIPT_INFO THEN Continue(<<ScriptInfo_new>>)
      ELSE Failed(Error("MissingScriptInfo", 1))

\* the body of the loop of <Ass as FromStr>::from_str
from_str_body(sections, line, line_number, overflow_checks) ==
  IF line = SCRIPT_INFO THEN Continue(Append(sections, ScriptInfo_new))
  ELSE IF line = "[V4+ Styles]" THEN Continue(Append(sections, StylesSection_new))
  ELSE IF line = "[Events]" THEN Continue(Append(sections, EventsSection_new))
  ELSE IF get_generic_section_title(line).some
       THEN Continue(Append(sections, GenericSection_new(get_generic_section_title(line).v)))
  ELSE IF sections # <<>> THEN forward(sections, line, line_number, overflow_checks)
  ELSE Failed(Error("Invalid", line_number))

\* the check that opens <Ass as FromStr>::from_str
from_str_check(buf) ==
  IF ~starts_with(buf, SCRIPT_INFO) THEN Failed(Error("MissingScriptInfo", 1))
  ELSE Continue(<<>>)

\* the loop of Ass::from_reader over the raw lines left, `index` being the
\* count of enumerate()
RECURSIVE from_reader_loop(_, _, _, _)
RECURSIVE from_reader_turn(_, _, _, _)
from_reader_loop(sections, raws, index, overflow_checks) ==
  IF raws = <<>> THEN Returned(sections)
  ELSE from_reader_turn(
         from_reader_body(sections, lines_item(Head(raws)), index + 2, overflow_checks),
         raws, index, overflow_checks)

\* after one turn with outcome r: return, or go on with the next line
from_reader_turn(r, raws, index, overflow_checks) ==
  IF r.tag # "Continue" THEN r
  ELSE from_reader_loop(r.sections, Tail(raws), index + 1, overflow_checks)

\* Ass::from_reader on a reader that yields the raw lines and never fails
from_reader(raws, overflow_checks) ==
  LET first == from_reader_first(IF raws = <<>> THEN "" ELSE Head(raws) \o "\n")
  IN  IF first.tag # "Continue" THEN first
      ELSE from_reader_loop(first.sections, Tail(raws), 0, overflow_checks)

RECURSIVE from_str_loop(_, _, _, _)
RECURSIVE from_str_turn(_, _, _, _)
from_str_loop(sections, raws, index, overflow_checks) ==
  IF raws = <<>> THEN Returned(sections)
  ELSE from_str_turn(
         from_str_body(sections, lines_item(Head(raws)), index + 1, overflow_checks),
         raws, index, overflow_checks)

\* after one turn with outcome r: return, or go on with the next line
from_str_turn(r, raws, index, overflow_checks) ==
  IF r.tag # "Continue" THEN r
  ELSE from_str_loop(r.sections, Tail(raws), index + 1, overflow_checks)

\* <Ass as FromStr>::from_str on the text made of the raw lines
from_str(raws, overflow_checks) ==
  LET check == from_str_check(IF raws = <<>> THEN "" ELSE Head(raws) \o "\n")
  IN  IF check.tag # "Continue" THEN check
      ELSE from_str_loop(<<>>, raws, 0, overflow_checks)

parse_with(entry, raws, overflow_checks) ==
  IF entry = "from_reader" THEN from_reader(raws, overflow_checks)
  ELSE from_str(raws, overflow_checks)

(***************************************************************************)
(* Ass::from_srt.  A character outside ASCII is written in a text as its   *)
(* escape \u{XXXX}; chars gives the code points of a text.                 *)
(***************************************************************************)
\* srt::Dialogue
Dialogue(position, start, end, text) ==
  [position |-> position, start |-> start, end |-> end, text |-> text]

\* the code point of one ASCII character
char_code(c) == IF c = "\n" THEN 10 ELSE IF c = BOM THEN 65279 ELSE Bytes(c)[1]

\* str::chars, as code points
RECURSIVE chars(_)
chars(s) ==
  IF s = "" THEN <<>>
  ELSE IF starts_with(s, "\\u{")
       THEN <<DigitsValue(SubSeq(s, 4, Find(s, "}") - 1), 16)>>
              \o chars(SubSeq(s, Find(s, "}") + 1, Len(s)))
  ELSE <<char_code(CharAt(s, 1))>> \o chars(Tail(s))

\* japanese::is_japanese: 3040..30ff, ff66..ff9d, 4e00..9faf
is_japanese(ch) ==
  \/ ch \in 12352..12543
  \/ ch \in 65382..65437
  \/ ch \in 19968..40879

\* japanese::contains_japanese
contains_japanese(s) == \E i \in 1..Len(chars(s)) : is_japanese(chars(s)[i])

\* the tags of srt_tag_regex: <(i|b|u|s)>(.+)</(?:i|b|u|s)>
SrtTags == {"i", "b", "u", "s"}

opens_at(s, i) ==
  /\ i + 2 <= Len(s)
  /\ CharAt(s, i) = "<" /\ CharAt(s, i + 1) \in SrtTags /\ CharAt(s, i + 2) = ">"

closes_at(s, j) ==
  /\ j + 3 <= Len(s)
  /\ SubSeq(s, j, j + 1) = "</" /\ CharAt(s, j + 2) \in SrtTags /\ CharAt(s, j + 3) = ">"

\* where a match that opens at i may close: after at least one character,
\* none of them a line break (`.` does not match one)
closings(s, i) ==
  {j \in (i + 4)..Len(s) :
     closes_at(s, j) /\ \A k \in (i + 3)..(j - 1) : CharAt(s, k) # "\n"}

Max(S) == CHOOSE x \in S : \A y \in S : y <= x

\* Regex::replace_all with ReplaceTags from position i on: the leftmost
\* match, `.+` taking as much as it can
RECURSIVE replace_tags(_, _)
RECURSIVE replace_append(_, _, _)
replace_tags(s, i) ==
  IF i > Len(s) THEN ""
  ELSE IF opens_at(s, i) /\ closings(s, i) # {}
       THEN replace_append(s, i, Max(closings(s, i)))
  ELSE CharAt(s, i) \o replace_tags(s, i + 1)

\* ReplaceTags::replace_append for the match from i to the closing tag at j
replace_append(s, i, j) ==
  "{\\" \o CharAt(s, i + 1) \o "1}" \o SubSeq(s, i + 3, j - 1)
    \o "{\\" \o CharAt(s, i + 1) \o "0}" \o replace_tags(s, j + 4)

\* str::replace
RECURSIVE replace(_, _, _)
replace(s, from, to) ==
  IF Find(s, from) = 0 THEN s
  ELSE SubSeq(s, 1, Find(s, from) - 1) \o to
         \o replace(SubSeq(s, Find(s, from) + Len(from), Len(s)), from, to)

\* srt_to_ass
srt_to_ass(line) == replace(replace_tags(line, 1), "\n", "\\N")

\* Line::variable
variable(key, value) == Variable(key \o ": " \o value)

\* <ScriptInfo as Default>::default
ScriptInfo_default ==
  [kind |-> "ScriptInfo", title |-> "",
   lines |-> <<variable("ScriptType", "v4.00+"), variable("WrapStyle", "0"),
               variable("ScaledBorderAndShadow", "yes"),
               variable("YCbCr Matrix", "TV.709"), variable("PlayResX", "1920"),
               variable("PlayResY", "1080"), Empty>>,
   format |-> <<>>, styles |-> <<>>, events |-> <<>>]

\* <StylesSection as Default>::default
StylesSection_default ==
  [kind |-> "Styles", title |-> "", lines |-> <<>>,
   format |-> split(SubSeq(STYLES_FORMAT, 9, Len(STYLES_FORMAT)), ", "),
   styles |-> <<Style_default>>, events |-> <<>>]

\* <EventsSection as Default>::default
EventsSection_default ==
  [kind |-> "Events", title |-> "", lines |-> <<>>,
   format |-> split(SubSeq(EVENTS_FORMAT, 9, Len(EVENTS_FORMAT)), ", "),
   styles |-> <<>>, events |-> <<>>]

\* Style::program_default
program_default ==
  [name |-> "Default", font_name |-> "Arial", font_size |-> 66,
   primary_colour |-> from_rgb(250, 250, 250), secondary_colour |-> RED,
   outline_colour |-> from_rgb(182, 115, 242), background_colour |-> BLACK,
   bold |-> FALSE, italic |-> FALSE, underline |-> FALSE, striked |-> FALSE,
   scale_x |-> F32(FALSE, 100, 0), scale_y |-> F32(FALSE, 100, 0),
   spacing |-> F32(FALSE, 1, 0), angle |-> F32(FALSE, 0, 0),
   border_style |-> 1, outline |-> F32(FALSE, 3, 0), shadow |-> F32(FALSE, 0, 0),
   alignment |-> 2, margin_l |-> 10, margin_r |-> 10, margin_v |-> 20,
   encoding |-> 1]

\* the style of from_srt: bold `Yu Gothic UI` when Japanese was found
srt_style(japanese) ==
  IF japanese THEN [program_default EXCEPT !.bold = TRUE, !.name = "Yu Gothic UI"]
  ELSE program_default

\* the event of from_srt for one entry
srt_event(d) ==
  [Event_default EXCEPT !.text = srt_to_ass(d.text), !.start = d.start, !.end = d.end]

\* from_srt that looks for Japanese in the first entry only
from_srt_first_entry(dialogue) ==
  <<ScriptInfo_default,
    [StylesSection_default EXCEPT
       !.styles = <<srt_style(dialogue # <<>> /\ contains_japanese(dialogue[1].text))>>],
    [EventsSection_default EXCEPT
       !.events = [i \in 1..Len(dialogue) |-> srt_event(dialogue[i])]]>>

\* Ass::from_srt: the sections of the Document
from_srt(dialogue) ==
  <<ScriptInfo_default,
    [StylesSection_default EXCEPT
       !.styles = <<srt_style(\E i \in 1..Len(dialogue) : contains_japanese(dialogue[i].text))>>],
    [EventsSection_default EXCEPT
       !.events = [i \in 1..Len(dialogue) |-> srt_event(dialogue[i])]]>>

(***************************************************************************)
(* Section::remove_comments.                                               *)
(***************************************************************************)
\* is_comment that knows the `;` lines only
is_comment_semicolon(line) == line.tag = "Comment"

\* Line::is_comment
is_comment(line) ==
  CASE line.tag = "Variable" ->
         split_once(line.s, ": ").some /\ split_once(line.s, ": ").v[1] = "Comment"
    [] line.tag = "Comment" -> TRUE
    [] line.tag = "Encoded" -> FALSE
    [] line.tag = "Empty" -> FALSE

\* EventKind::is_comment
EventKind_is_comment(kind) == kind = "Comment"

\* ScriptInfo::remove_comments, GenericSection::remove_comments
lines_remove_comments(sec) ==
  [sec EXCEPT !.lines = SelectSeq(sec.lines, LAMBDA l : ~is_comment(l))]

\* EventsSection::remove_comments
EventsSection_remove_comments(sec) ==
  [sec EXCEPT !.events = SelectSeq(sec.events, LAMBDA e : ~EventKind_is_comment(e.kind))]

\* Section::remove_comments
remove_comments(sec) ==
  CASE sec.kind = "ScriptInfo" -> lines_remove_comments(sec)
    [] sec.kind = "Events" -> EventsSection_remove_comments(sec)
    [] sec.kind = "Generic" -> lines_remove_comments(sec)
    [] OTHER -> sec

(***************************************************************************)
(* srt::Dialogue: FromStr and Display.                                     *)
(***************************************************************************)
RECURSIVE trim_start(_)
trim_start(s) == IF s # "" /\ is_whitespace(CharAt(s, 1)) THEN trim_start(Tail(s)) ELSE s

\* str::trim
trim(s) == trim_end(trim_start(s))

\* Duration::subsec_millis
subsec_millis(d) == d.nanos \div 1000000

\* Duration::new(seconds, ms.saturating_mul(1_000_000)): the product stops
\* at u32::MAX = 4_294_967_295 and the whole seconds in it are carried
srt_duration(seconds, ms) ==
  IF ms > 4294 THEN Duration(seconds + 4, 294967295)
  ELSE Duration(seconds + (ms \div 1000), (ms % 1000) * 1000000)

\* the tail of parse_srt_time, the four numbers parsed (-1: not a number)
srt_time_new(hours, minutes, seconds, ms) ==
  IF hours = -1 \/ minutes = -1 \/ seconds = -1 \/ ms = -1 THEN None
  ELSE Some(srt_duration(seconds + (minutes * 60) + (hours * 3600), ms))

\* parse_srt_time after split_once(','), split the pieces of rest
srt_time_split(parts, ms) ==
  IF Len(parts) < 3 THEN None
  ELSE srt_time_new(parse_uint(parts[1], U64_MAX), parse_uint(parts[2], U64_MAX),
                    parse_uint(parts[3], U64_MAX), parse_uint(trim(ms), U32_MAX))

\* parse_srt_time
parse_srt_time(s) ==
  IF ~split_once(s, ",").some THEN None
  ELSE srt_time_split(splitn(3, trim(split_once(s, ",").v[1]), ":"), split_once(s, ",").v[2])

NoDialogue == Dialogue(0, ZERO, ZERO, "")
DialogueOk(d) == [ok |-> TRUE, err |-> "", v |-> d]
DialogueErr(e) == [ok |-> FALSE, err |-> e, v |-> NoDialogue]

\* <Dialogue as FromStr>::from_str once both times are parsed
Dialogue_from_times(position, start, end, lines) ==
  IF ~start.some THEN DialogueErr("Start")
  ELSE IF ~end.some THEN DialogueErr("End")
  ELSE IF Len(lines) < 3 THEN DialogueErr("EmptyDialogue")
  ELSE DialogueOk(Dialogue(position, start.v, end.v, lines[3]))

\* <Dialogue as FromStr>::from_str after splitn(3, '\n')
Dialogue_from_lines(lines, position) ==
  IF position = -1 THEN DialogueErr("Position")
  ELSE IF Len(lines) < 2 THEN DialogueErr("Start")
  ELSE IF ~split_once(lines[2], " --> ").some THEN DialogueErr("Separator")
  ELSE Dialogue_from_times(position, parse_srt_time(split_once(lines[2], " --> ").v[1]),
                           parse_srt_time(split_once(lines[2], " --> ").v[2]), lines)

\* <Dialogue as FromStr>::from_str
Dialogue_from_str(s) ==
  Dialogue_from_lines(splitn(3, s, "\n"), parse_uint(splitn(3, s, "\n")[1], U32_MAX))

\* duration_to_srt: "{:02}:{:02}:{:02},{}"
duration_to_srt(d) ==
  pad2(d.secs \div 3600) \o ":" \o pad2((d.secs % 3600) \div 60) \o ":"
    \o pad2((d.secs % 3600) % 60) \o "," \o to_dec(subsec_millis(d))

\* <Dialogue as Display>::fmt
Dialogue_to_string(d) ==
  to_dec(d.position) \o "\n" \o duration_to_srt(d.start) \o " --> "
    \o duration_to_srt(d.end) \o "\n" \o d.text

(***************************************************************************)
(* CleanupArgs::run: the merge of simultaneous lines.  The options remove  *)
(* and fix_japanese are not given.                                         *)
(***************************************************************************)
\* u32::MAX, the mark on an entry to delete; it stands here as the largest
\* integer of the checker, which no position of a modelled entry reaches
POSITION_MAX == 2147483647

\* Duration::MAX, the mark on an event to delete; its u64::MAX seconds
\* stand here as the largest integer of the checker
Duration_MAX == Duration(2147483647, 999999999)

\* the body of the SRT loop on the window [left, right] = [i, i + 1]
srt_merge_window(dialogue, i) ==
  IF dialogue[i].start = dialogue[i + 1].start /\ dialogue[i].end = dialogue[i + 1].end
  THEN [dialogue EXCEPT ![i].text = @ \o "\n" \o dialogue[i + 1].text,
                        ![i + 1].position = POSITION_MAX]
  ELSE dialogue

\* windows_mut and the loop over it: the windows of two, each one step on
RECURSIVE srt_merge(_, _)
srt_merge(dialogue, i) ==
  IF i + 1 > Len(dialogue) THEN dialogue
  ELSE srt_merge(srt_merge_window(dialogue, i), i + 1)

\* dialogue.retain(|d| d.position != u32::MAX)
srt_retain(dialogue) == SelectSeq(dialogue, LAMBDA d : d.position # POSITION_MAX)

\* the position markers set again
srt_renumber(dialogue) == [i \in 1..Len(dialogue) |-> [dialogue[i] EXCEPT !.position = i]]

\* CleanupArgs::run on SRT dialogue
cleanup_srt(dialogue, merge_simultaneous) ==
  srt_renumber(IF merge_simultaneous THEN srt_retain(srt_merge(dialogue, 1)) ELSE dialogue)

\* the styles seen by the first pass over the events
used_styles(events) == {events[i].style : i \in 1..Len(events)}

\* the first pass: the events of the styles of dialogue_from are marked
mark_removed(events, dialogue_from) ==
  [i \in 1..Len(events) |->
     IF events[i].style \in dialogue_from THEN [events[i] EXCEPT !.start = Duration_MAX]
     ELSE events[i]]

\* the body of the ASS loop on the window [left, right] = [i, i + 1]
ass_merge_window(events, i) ==
  IF /\ events[i].start # Duration_MAX
     /\ events[i].start = events[i + 1].start
     /\ events[i].end = events[i + 1].end
  THEN [events EXCEPT ![i].text = @ \o "\\N" \o events[i + 1].text,
                      ![i + 1].start = Duration_MAX]
  ELSE events

RECURSIVE ass_merge(_, _)
ass_merge(events, i) ==
  IF i + 1 > Len(events) THEN events
  ELSE ass_merge(ass_merge_window(events, i), i + 1)

\* section.events.retain(..)
ass_retain(events, unused_styles, used) ==
  SelectSeq(events, LAMBDA d : d.start # Duration_MAX /\ ~(unused_styles /\ d.style \notin used))

\* CleanupArgs::run on the events of an ASS document
cleanup_ass(events, args) ==
  ass_retain(IF args.merge_simultaneous
             THEN ass_merge(mark_removed(events, args.dialogue_from), 1)
             ELSE mark_removed(events, args.dialogue_from),
             args.unused_styles, used_styles(events))

(***************************************************************************)
(* CleanupArgs::run on an ASS document.                                    *)
(***************************************************************************)
\* `for section in &mut subs.sections { section.remove_comments() }`
remove_all_comments(sections) == [i \in 1..Len(sections) |-> remove_comments(sections[i])]

\* subs.sections.iter_mut().find_map(|s| s.as_events_mut()): the index of
\* the first Events section, 0 when there is none
first_events(sections) ==
  IF \E i \in 1..Len(sections) : sections[i].kind = "Events"
  THEN CHOOSE i \in 1..Len(sections) :
         /\ sections[i].kind = "Events"
         /\ \A j \in 1..(i - 1) : sections[j].kind # "Events"
  ELSE 0

\* the cleanup of the events of the section at i, the other sections as they are
cleanup_events_at(sections, i, args) ==
  IF i = 0 THEN sections
  ELSE [sections EXCEPT ![i].events = cleanup_ass(@, args)]

\* CleanupArgs::run on a parsed Document
cleanup_document(sections, args, comments) ==
  IF comments
  THEN cleanup_events_at(remove_all_comments(sections),
                         first_events(remove_all_comments(sections)), args)
  ELSE cleanup_events_at(sections, first_events(sections), args)

(***************************************************************************)
(* The state machine: one input text is parsed line by line through one    *)
(* entry point; a returned Document is saved, the saved text is parsed     *)
(* again and saved again.                                                  *)
(***************************************************************************)
VARIABLES
  alphabet,         \* the raw lines the input text is drawn from
  entry,            \* the entry point in use
  overflow_checks,  \* whether the build traps integer overflow
  input,            \* the raw lines read so far
  pc,               \* "first", "body", "returned", "saved", "reparsed", "resaved"
  sections,         \* the local `sections`, then the returned Document
  result,           \* the outcome: tag "Continue" while parsing
  written,          \* the lines written by the first save
  reparsed,         \* the outcome of parsing `written`
  rewritten,        \* the lines written by saving the re-parsed Document
  call              \* a function applied on its own: [kind, fn, origin, arg, ret]

vars == <<alphabet, entry, overflow_checks, input, pc, sections, result, written, reparsed, rewritten, call>>

\* no function is applied on its own
NoCall == [kind |-> "none", fn |-> "none", origin |-> <<>>, arg |-> <<>>, ret |-> <<>>]

\* Families of input texts, each given by the raw lines its texts are made
\* of.  SectionLines: headers, with a byte order mark and with a trailing
\* blank.  RowLines: a Format naming some columns, a Style row shorter than
\* it and an event row whose last column holds a comma.
SectionLines ==
  {SCRIPT_INFO, BOM \o SCRIPT_INFO, SCRIPT_INFO \o " ", "[V4+ Styles]", "[Fonts]"}

RowLines ==
  {SCRIPT_INFO, "[V4+ Styles]", "[Events]",
   "Format: Fontsize, Start, Name",
   "Style: 12,x",
   "Dialogue: 12,0:00:01.50,A,B"}

\* PlainLines: one line of each class (comment, variable, empty, encoded)
\* under the two section kinds that store lines.
PlainLines ==
  {SCRIPT_INFO, "[Fonts]", "; note", "Title: x", "", "AB"}

\* DroppedLines: a line that no rule of Line::parse matches, under a header
\* of each section kind.
DroppedLines ==
  {SCRIPT_INFO, "[V4+ Styles]", "[Events]", "[Fonts]", "no match"}

\* RejectedLines: under the headers of the two sections that hold rows, a
\* blank line, a line of each class that is no row, and a Format line.
RejectedLines ==
  {SCRIPT_INFO, "[V4+ Styles]", "[Events]", "", "; note", "AB", "Foo: 1",
   "Format: Layer, Text"}

InputFamilies == {SectionLines, RowLines, PlainLines, DroppedLines, RejectedLines}

Init ==
  /\ alphabet \in InputFamilies
  /\ entry \in {"from_reader", "from_str"}
  /\ overflow_checks \in BOOLEAN
  /\ input = <<>>
  /\ pc = "first"
  /\ sections = <<>>
  /\ result = Continue(<<>>)
  /\ written = <<>>
  /\ reparsed = Continue(<<>>)
  /\ rewritten = <<>>
  /\ call = NoCall

\* one turn of a parse has produced r
Advance(r) ==
  /\ result' = r
  /\ sections' = r.sections
  /\ pc' = IF r.tag = "Continue" THEN "body" ELSE "returned"
  /\ UNCHANGED <<alphabet, entry, overflow_checks, written, reparsed, rewritten, call>>

\* from_reader reads the first line
ReaderFirstLine(raw) ==
  /\ entry = "from_reader" /\ pc = "first"
  /\ input' = <<raw>>
  /\ Advance(from_reader_first(raw \o "\n"))

\* from_reader reads the first line of an empty input
ReaderFirstEof ==
  /\ entry = "from_reader" /\ pc = "first"
  /\ input' = input
  /\ Advance(from_reader_first(""))

\* a read of from_reader fails: `reader.read_line(&mut buf)?` or `line?`
ReaderIoError ==
  /\ entry = "from_reader" /\ pc \in {"first", "body"}
  /\ input' = input
  /\ Advance(Failed(from_kind("Io")))

\* from_reader reads one more line
ReaderNextLine(raw) ==
  /\ entry = "from_reader" /\ pc = "body" /\ Len(input) < MaxLines
  /\ input' = Append(input, raw)
  /\ Advance(from_reader_body(sections, lines_item(raw), (Len(input) - 1) + 2, overflow_checks))

\* from_str checks the text and takes its first line
StrFirstLine(raw) ==
  /\ entry = "from_str" /\ pc = "first"
  /\ input' = <<raw>>
  /\ Advance(IF from_str_check(raw \o "\n").tag # "Continue"
             THEN from_str_check(raw \o "\n")
             ELSE from_str_body(<<>>, lines_item(raw), 0 + 1, overflow_checks))

\* from_str on the empty text
StrEmpty ==
  /\ entry = "from_str" /\ pc = "first"
  /\ input' = input
  /\ Advance(from_str_check(""))

\* from_str takes one more line
StrNextLine(raw) ==
  /\ entry = "from_str" /\ pc = "body" /\ Len(input) < MaxLines
  /\ input' = Append(input, raw)
  /\ Advance(from_str_body(sections, lines_item(raw), Len(input) + 1, overflow_checks))

\* the input ends: Ok(Self { sections })
Eof ==
  /\ pc = "body"
  /\ input' = input
  /\ Advance(Returned(sections))

\* Ass::save_to_writer on the returned Document
Save ==
  /\ pc = "returned" /\ result.tag = "Ok"
  /\ written' = save_to_writer(sections)
  /\ pc' = "saved"
  /\ UNCHANGED <<alphabet, entry, overflow_checks, input, sections, result, reparsed, rewritten, call>>

\* the saved text is parsed through the same entry point
Reparse ==
  /\ pc = "saved"
  /\ reparsed' = parse_with(entry, written, overflow_checks)
  /\ pc' = "reparsed"
  /\ UNCHANGED <<alphabet, entry, overflow_checks, input, sections, result, written, rewritten, call>>

\* Ass::save_to_writer on the re-parsed Document
Resave ==
  /\ pc = "reparsed" /\ reparsed.tag = "Ok"
  /\ rewritten' = save_to_writer(reparsed.sections)
  /\ pc' = "resaved"
  /\ UNCHANGED <<alphabet, entry, overflow_checks, input, sections, result, written, reparsed, call>>

Next ==
  \/ \E raw \in alphabet : ReaderFirstLine(raw)
  \/ ReaderFirstEof
  \/ ReaderIoError
  \/ \E raw \in alphabet : ReaderNextLine(raw)
  \/ \E raw \in alphabet : StrFirstLine(raw)
  \/ StrEmpty
  \/ \E raw \in alphabet : StrNextLine(raw)
  \/ Eof
  \/ Save
  \/ Reparse
  \/ Resave

Spec == Init /\ [][Next]_vars

(***************************************************************************)
(* The functions applied on their own: an input is drawn, one function is  *)
(* applied to it, then the function that undoes or follows it.  `call`     *)
(* holds the kind of the input, the function applied last, the input first *)
(* drawn, the argument of that function and what it returned.              *)
(***************************************************************************)
\* the variables of the parse, at rest while a function is applied
parse_vars == <<alphabet, entry, input, pc, sections, result, written, reparsed, rewritten>>

Drawn(kind, x) == [kind |-> kind, fn |-> "input", origin |-> x, arg |-> x, ret |-> <<>>]
Applied(fn, arg, ret) == [kind |-> call.kind, fn |-> fn, origin |-> call.origin, arg |-> arg, ret |-> ret]

\* the digit pairs the colour texts are made of, in both cases
HexPairs == {"00", "fF", "1a", "B7"}

\* `&H` and 8 hex digits, and texts that Colour::from_ass is not asked to take
ColourTexts ==
  {"&H" \o a \o b \o g \o r : a \in HexPairs, b \in HexPairs, g \in HexPairs, r \in HexPairs}
    \cup {"&HFF", "&H0000000G", "00000000", "&H+1a2B3c4"}

\* durations around the turns of the minute and of the hour, with and
\* without a part below the centisecond
DurationSecs == {0, 1, 59, 60, 3599, 3600, 86399, 360000}
DurationNanos == {0, 1, 9999999, 10000000, 500000000, 995000000, 999999999}
Durations == {Duration(secs, nanos) : secs \in DurationSecs, nanos \in DurationNanos}

\* events to shift: starts and ends below, at and above the offsets
ShiftTimes == {ZERO, Duration(0, 300000000), Duration(1, 0), Duration(2, 500000000)}
ShiftEvents ==
  {[Event_default EXCEPT !.start = a, !.end = b, !.text = "hi", !.layer = 3] :
     a \in ShiftTimes, b \in ShiftTimes}

\* offsets in seconds, of both signs: 0, -0, 0.5, 1.5, 2, 2.5, 10
ShiftOffsets ==
  {F32(FALSE, 0, 0), F32(TRUE, 0, 0), F32(FALSE, 5, 1), F32(TRUE, 5, 1),
   F32(FALSE, 15, 1), F32(TRUE, 15, 1), F32(FALSE, 2, 0), F32(TRUE, 25, 1),
   F32(TRUE, 10, 0)}

\* the longest list of SRT entries given to from_srt
MaxDialogue == 2

\* texts in ASCII, with a tag and a line break, with a hiragana, a half-width
\* katakana or a kanji, and with a full-width digit
SrtTexts ==
  {"Hello", "<i>a</i>\nb", "\\u{3042}", "A \\u{FF71}", "\\u{4E2D}", "\\u{FF14}"}

SrtEntries ==
  {Dialogue(1, Duration(1, 0), Duration(2, 500000000), t) : t \in SrtTexts}
    \cup {Dialogue(2, Duration(3, 0), Duration(4, 0), t) : t \in SrtTexts}

\* the lists of at most n entries
RECURSIVE SrtLists(_)
SrtLists(n) ==
  IF n = 0 THEN {<<>>}
  ELSE SrtLists(n - 1) \cup {Append(l, d) : l \in {x \in SrtLists(n - 1) : Len(x) = n - 1}, d \in SrtEntries}

\* the most lines, styles or events of a section given to remove_comments
MaxItems == 3

\* the lists of at most n members of S
RECURSIVE Lists(_, _)
Lists(S, n) ==
  IF n = 0 THEN {<<>>}
  ELSE Lists(S, n - 1)
         \cup {Append(l, x) : l \in {y \in Lists(S, n - 1) : Len(y) = n - 1}, x \in S}

\* lines as Line::parse gives them
CommentLines ==
  {Line_parse(t) : t \in {"; note", ";", "Comment: x", "Comment: a: b", "Title: Comment",
                          "comment: y", " Comment: z", "", "AB"}}

CommentEvents ==
  {[Event_default EXCEPT !.kind = k, !.text = t] : k \in EventKinds, t \in {"a", "Comment"}}

CommentStyles == {Style_default, [program_default EXCEPT !.name = "Comment"]}

CommentSections ==
  {[ScriptInfo_default EXCEPT !.lines = l] : l \in Lists(CommentLines, MaxItems)}
    \cup {[kind |-> "Generic", title |-> "Fonts", lines |-> l, format |-> <<>>,
           styles |-> <<>>, events |-> <<>>] : l \in Lists(CommentLines, MaxItems)}
    \cup {[EventsSection_default EXCEPT !.events = l] : l \in Lists(CommentEvents, MaxItems)}
    \cup {[StylesSection_default EXCEPT !.styles = l] : l \in Lists(CommentStyles, MaxItems)}

\* SRT times HH:MM:SS,mmm
SrtTimes ==
  {h \o ":" \o m \o ":" \o sec \o "," \o ms :
     h \in {"00", "01"}, m \in {"00", "59"}, sec \in {"05", "22"},
     ms \in {"000", "014", "100", "814"}}

\* SRT blocks: position, times, text
SrtBlocks ==
  {p \o "\n" \o a \o " --> " \o b \o "\n" \o t :
     p \in {"1", "11"}, a \in SrtTimes, b \in SrtTimes, t \in {"hi", "a\nb"}}
    \cup {"x\n00:00:05,000 --> 00:00:22,000\nhi", "1", "1\n00:00:05,000 -> 00:00:22,000\nhi",
          "1\n00:00:05 --> 00:00:22,000\nhi", "1\n00:00:05,000 --> 00:22,000\nhi",
          "1\n00:00:05,000 --> 00:00:22,000"}

\* the most entries or events given to the cleanup
MaxEntries == 3

\* start and end of a line: two with the same start, one apart
CleanupTimes ==
  {<<Duration(1, 0), Duration(2, 0)>>, <<Duration(1, 0), Duration(3, 0)>>,
   <<Duration(4, 0), Duration(5, 500000000)>>}

\* the text of the i-th line
CleanupText(i) == CharAt("abcdefghijklmnopqrstuvwxyz", i)

\* SRT dialogue numbered from 1
CleanupDialogue ==
  {[i \in 1..Len(t) |-> Dialogue(i, t[i][1], t[i][2], CleanupText(i))] :
     t \in UNION {[1..n -> CleanupTimes] : n \in 0..MaxEntries}}

\* the Dialogue events of an Events section
CleanupEvents ==
  {[i \in 1..Len(t) |->
      [Event_default EXCEPT !.start = t[i][1][1], !.end = t[i][1][2], !.style = t[i][2],
                            !.text = CleanupText(i)]] :
     t \in UNION {[1..n -> CleanupTimes \X {"Default", "Alt"}] : n \in 0..MaxEntries}}

\* the options of the cleanup command that bear on the events
CleanupArgs ==
  [merge_simultaneous : BOOLEAN, unused_styles : BOOLEAN, dialogue_from : {{}, {"Alt"}}]

\* the styles of a document: the one every event may use, and others
CleanupStyles ==
  {<<Style_default>>,
   <<Style_default, [Style_default EXCEPT !.name = "Alt"]>>,
   <<Style_default, [Style_default EXCEPT !.name = "Alt"],
     [Style_default EXCEPT !.name = "Sign"]>>}

\* the i-th event of a document: one second long, starting at second i
DocEvent(i, kind, style) ==
  [Event_default EXCEPT !.kind = kind, !.style = style, !.start = Duration(i, 0),
                        !.end = Duration(i + 1, 0), !.text = CleanupText(i)]

DocEvents ==
  {[i \in 1..Len(t) |-> DocEvent(i, t[i][1], t[i][2])] :
     t \in UNION {[1..n -> {"Dialogue", "Comment"} \X {"Default", "Alt"}] : n \in 0..MaxEntries}}

\* documents with a ScriptInfo, a Styles and an Events section
CleanupDocuments ==
  {<<ScriptInfo_default, [StylesSection_default EXCEPT !.styles = st],
     [EventsSection_default EXCEPT !.events = ev]>> : st \in CleanupStyles, ev \in DocEvents}

\* the most lines given in a row to one section
MaxRows == 2

\* Styles sections: no Format seen, or one of two, with or without a style
RowStyleSections ==
  {[StylesSection_new EXCEPT !.format = f, !.styles = st] :
     f \in {<<>>, <<"Name", "Fontsize", "PrimaryColour", "ScaleX">>, <<"Fontsize", "Name">>},
     st \in {<<>>, <<[Style_default EXCEPT !.name = "Old"]>>}}

\* Events sections: no Format seen, or one of two, with or without an event
RowEventSections ==
  {[EventsSection_new EXCEPT !.format = f, !.events = ev] :
     f \in {<<>>, <<"Layer", "Start", "Text">>, <<"Text", "Layer">>},
     ev \in {<<>>, <<[Event_default EXCEPT !.text = "old"]>>}}

\* lines for a Styles section: Format lines, rows that fit the first Format,
\* rows with a bad integer, colour or float, rows with more tokens than
\* names, and a line of each other class
StyleRowLines ==
  {"Format: Fontsize, Name", "Format: Name, Fontsize, PrimaryColour, ScaleX",
   "Style: A,12,&H00FFFFFF,100", "Style: A,x,&H00FFFFFF,100", "Style: A,12,red,100",
   "Style: A,12,&H00FFFFFF,wide", "Style: 12,A,B", "Style: A,12,&H00FFFFFF,100,extra,more",
   "", "; note", "AB", "Foo: 1"}

\* lines for an Events section: Format lines, rows whose last column holds
\* commas, rows with a bad integer or timestamp, and a line of each other class
EventRowLines ==
  {"Format: Layer, Start, Text", "Format: Text, Layer",
   "Dialogue: 0,0:00:01.50,a,b,c", "Dialogue: x,0:00:01.50,hi", "Dialogue: 0,soon,hi",
   "Comment: 0,0:00:01.50,hi", "Dialogue: hi,3", "Dialogue: a,b,3",
   "", "; note", "AB", "Foo: 1"}

\* a section and the lines it is given; `line` is the line handled last
Rows(sec, lines) == [sec |-> sec, line |-> "", rest |-> lines]

RowInputs ==
  {Rows(sec, l) : sec \in RowStyleSections, l \in Lists(StyleRowLines, MaxRows) \ {<<>>}}
    \cup {Rows(sec, l) : sec \in RowEventSections, l \in Lists(EventRowLines, MaxRows) \ {<<>>}}

\* n copies of a text
RECURSIVE Repeat(_, _)
Repeat(s, n) == IF n = 0 THEN "" ELSE s \o Repeat(s, n - 1)

\* texts for Line::parse: of each class, at the turns between the classes
\* and at both sides of the 80 bytes
ParseTexts ==
  {"", ";", ";x", "; a: b", "a: b", ": ", "a: ", "a:b", "AB", "A B", "ab", "A_", "!",
   " ", "[EVENTS]", "[Fonts]", BOM \o "A", "A;B", "Dialogue: 0,hi",
   Repeat("A", 80), Repeat("A", 81), Repeat("AB: ", 21), Repeat(";", 81),
   Repeat("A", 78) \o BOM}

\* timestamps with one, two and three digits after the point, at both
\* sides of the largest count of centiseconds whose nanoseconds fit a u32,
\* and texts that are no timestamp
TimestampTexts ==
  {"0:00:01.50", "1:02:03.4", "0:00:00.04", "0:00:00.150", "12:34:56.07", "0:59:59.99",
   "0:00:01.429", "0:00:01.430", "0:00:01.500", "0:00:00.999",
   "x:00:00.00", "0:00:01", "0:01.50", "0:00:01.-5"}

CallsInit ==
  /\ alphabet = {} /\ entry = "from_str" /\ input = <<>> /\ pc = "call"
  /\ sections = <<>> /\ result = Continue(<<>>) /\ written = <<>>
  /\ reparsed = Continue(<<>>) /\ rewritten = <<>>
  /\ overflow_checks \in BOOLEAN
  /\ \/ \E s \in ColourTexts : call = Drawn("colour", s)
     \/ \E d \in Durations : call = Drawn("duration", d)
     \/ \E e \in ShiftEvents, f \in ShiftOffsets :
          call = Drawn("shift", [event |-> e, seconds |-> f])
     \/ \E l \in SrtLists(MaxDialogue) : call = Drawn("srt", l)
     \/ \E sec \in CommentSections : call = Drawn("section", sec)
     \/ \E b \in SrtBlocks : call = Drawn("block", b)
     \/ \E d \in CleanupDialogue, m \in BOOLEAN :
          call = Drawn("cleanup_srt", [dialogue |-> d, merge_simultaneous |-> m])
     \/ \E e \in CleanupEvents, a \in CleanupArgs :
          call = Drawn("cleanup_ass", [events |-> e, args |-> a])
     \/ \E r \in RowInputs : call = Drawn("rows", r)
     \/ \E s \in ParseTexts : call = Drawn("text", s)
     \/ \E s \in TimestampTexts : call = Drawn("timestamp", s)
     \/ \E d \in CleanupDocuments, a \in CleanupArgs, c \in BOOLEAN :
          call = Drawn("cleanup_doc", [sections |-> d, args |-> a, comments |-> c])

\* Colour::from_ass on a text
CallFromAss ==
  /\ call.kind = "colour" /\ call.fn = "input"
  /\ call' = Applied("from_ass", call.arg, from_ass(call.arg))
  /\ UNCHANGED <<parse_vars, overflow_checks>>

\* <Colour as Display>::fmt on the Colour that from_ass returned
CallColourFmt ==
  /\ call.fn = "from_ass" /\ call.ret # NoColour
  /\ call' = Applied("Colour_to_string", call.ret, Colour_to_string(call.ret))
  /\ UNCHANGED <<parse_vars, overflow_checks>>

\* <AssDuration as Display>::fmt on a duration
CallAssDurationFmt ==
  /\ call.kind = "duration" /\ call.fn = "input"
  /\ call' = Applied("AssDuration_to_string", call.arg, AssDuration_to_string(call.arg))
  /\ UNCHANGED <<parse_vars, overflow_checks>>

\* ass_timestamp_to_duration on the text that Display wrote
CallAssTimestamp ==
  /\ call.fn = "AssDuration_to_string"
  /\ call' = Applied("ass_timestamp_to_duration", call.ret,
                     ass_timestamp_to_duration(call.ret, overflow_checks))
  /\ UNCHANGED <<parse_vars, overflow_checks>>

\* Event::shift_by on an event
CallShiftBy ==
  /\ call.kind = "shift" /\ call.fn = "input"
  /\ call' = Applied("shift_by", call.arg, shift_by(call.arg.event, call.arg.seconds))
  /\ UNCHANGED <<parse_vars, overflow_checks>>

\* Ass::from_srt on a list of entries
CallFromSrt ==
  /\ call.kind = "srt" /\ call.fn = "input"
  /\ call' = Applied("from_srt", call.arg, from_srt(call.arg))
  /\ UNCHANGED <<parse_vars, overflow_checks>>

\* Section::remove_comments on a section
CallRemoveComments ==
  /\ call.kind = "section" /\ call.fn = "input"
  /\ call' = Applied("remove_comments", call.arg, remove_comments(call.arg))
  /\ UNCHANGED <<parse_vars, overflow_checks>>

\* Section::remove_comments on its own result
CallRemoveCommentsAgain ==
  /\ call.kind = "section" /\ call.fn = "remove_comments"
  /\ call' = Applied("remove_comments_again", call.ret, remove_comments(call.ret))
  /\ UNCHANGED <<parse_vars, overflow_checks>>

\* str::parse::<Dialogue> on a block
CallDialogueFromStr ==
  /\ call.kind = "block" /\ call.fn = "input"
  /\ call' = Applied("from_str", call.arg, Dialogue_from_str(call.arg))
  /\ UNCHANGED <<parse_vars, overflow_checks>>

\* Dialogue::to_string on the parsed Dialogue
CallDialogueToString ==
  /\ call.kind = "block" /\ call.fn = "from_str" /\ call.ret.ok
  /\ call' = Applied("to_string", call.ret.v, Dialogue_to_string(call.ret.v))
  /\ UNCHANGED <<parse_vars, overflow_checks>>

\* CleanupArgs::run on SRT dialogue
CallCleanupSrt ==
  /\ call.kind = "cleanup_srt" /\ call.fn = "input"
  /\ call' = Applied("cleanup", call.arg,
                     cleanup_srt(call.arg.dialogue, call.arg.merge_simultaneous))
  /\ UNCHANGED <<parse_vars, overflow_checks>>

\* CleanupArgs::run on the events of an ASS document
CallCleanupAss ==
  /\ call.kind = "cleanup_ass" /\ call.fn = "input"
  /\ call' = Applied("cleanup", call.arg, cleanup_ass(call.arg.events, call.arg.args))
  /\ UNCHANGED <<parse_vars, overflow_checks>>

\* CleanupArgs::run on a Document
CallCleanupDocument ==
  /\ call.kind = "cleanup_doc" /\ call.fn = "input"
  /\ call' = Applied("cleanup", call.arg,
                     cleanup_document(call.arg.sections, call.arg.args, call.arg.comments))
  /\ UNCHANGED <<parse_vars, overflow_checks>>

\* the section the next line goes to: the one drawn, then the one the
\* handler left
row_section == IF call.fn = "input" THEN call.arg.sec ELSE call.ret.sec

\* Section::process_line on the next line, as long as no line was rejected
CallProcessLine ==
  /\ call.kind = "rows" /\ call.arg.rest # <<>>
  /\ call.fn = "input" \/ (call.fn = "process_line" /\ call.ret.ok)
  /\ call' = Applied("process_line",
                     [sec |-> row_section, line |-> Head(call.arg.rest),
                      rest |-> Tail(call.arg.rest)],
                     process_line(row_section, Line_parse(Head(call.arg.rest)), overflow_checks))
  /\ UNCHANGED <<parse_vars, overflow_checks>>

\* Line::parse on a text
CallLineParse ==
  /\ call.kind = "text" /\ call.fn = "input"
  /\ call' = Applied("Line_parse", call.arg, Line_parse(call.arg))
  /\ UNCHANGED <<parse_vars, overflow_checks>>

\* ass_timestamp_to_duration on a text
CallTimestamp ==
  /\ call.kind = "timestamp" /\ call.fn = "input"
  /\ call' = Applied("ass_timestamp_to_duration", call.arg,
                     ass_timestamp_to_duration(call.arg, overflow_checks))
  /\ UNCHANGED <<parse_vars, overflow_checks>>

CallsNext ==
  \/ CallFromAss
  \/ CallColourFmt
  \/ CallAssDurationFmt
  \/ CallAssTimestamp
  \/ CallShiftBy
  \/ CallFromSrt
  \/ CallRemoveComments
  \/ CallRemoveCommentsAgain
  \/ CallDialogueFromStr
  \/ CallDialogueToString
  \/ CallCleanupSrt
  \/ CallCleanupAss
  \/ CallCleanupDocument
  \/ CallProcessLine
  \/ CallLineParse
  \/ CallTimestamp

Calls == CallsInit /\ [][CallsNext]_vars

(***************************************************************************)
(* Notions the properties are stated with, read off the input text alone.  *)
(***************************************************************************)
\* the i-th line of the input, without its line terminator
InputLine(i) == lines_item(input[i])

\* a line of the shape `[...]`
Bracketed(l) == Len(l) >= 2 /\ starts_with(l, "[") /\ ends_with(l, "]")

\* the header line that opened the section a line at position n falls in
OpeningHeader(n) ==
  CHOOSE h \in 1..(n - 1) :
    /\ h = 1 \/ Bracketed(InputLine(h))
    /\ \A j \in (h + 1)..(n - 1) : ~Bracketed(InputLine(j))

\* the positions of the Format lines of that section instance before n
FormatLines(n) ==
  {j \in (OpeningHeader(n) + 1)..(n - 1) : starts_with(InputLine(j), "Format: ")}

\* line n is a Style row of a [V4+ Styles] section
StyleRowAt(n) ==
  /\ n >= 2
  /\ InputLine(OpeningHeader(n)) = "[V4+ Styles]"
  /\ starts_with(InputLine(n), "Style: ")

\* line n is an event row of an [Events] section
EventRowAt(n) ==
  /\ n >= 2
  /\ InputLine(OpeningHeader(n)) = "[Events]"
  /\ \E k \in EventKinds : starts_with(InputLine(n), k \o ": ")

\* the parse has taken at least one line and the last one is line n
LastLine == Len(input)
Accepted == result.tag \in {"Continue", "Ok"}
Parsed == result.tag = "Ok"
\* no read failed after the last line was taken
NoReadFailure == ~(result.tag = "Err" /\ result.err.kind = "Io")
BothDocuments == pc \in {"reparsed", "resaved"}

StylesOf(secs) == [i \in 1..Len(secs) |-> secs[i].styles]
EventsOf(secs) == [i \in 1..Len(secs) |-> secs[i].events]

(***************************************************************************)
(* C1..C10.                                                                *)
(***************************************************************************)
\* C1: when a parsed Document is saved and the saved text is parsed again,
\* the second parse succeeds and its sections hold the same styles and the
\* same events, field by field.
C1_RoundTripKeepsValues ==
  BothDocuments =>
    /\ reparsed.tag = "Ok"
    /\ StylesOf(reparsed.sections) = StylesOf(sections)
    /\ EventsOf(reparsed.sections) = EventsOf(sections)

\* C2: the text S written for a parsed Document parses, and saving the
\* Document parsed from S writes S again.
C2_SaveIsFixedPoint ==
  /\ BothDocuments => reparsed.tag = "Ok"
  /\ pc = "resaved" => rewritten = written

\* C3: a returned Document starts with a ScriptInfo section and has no other
\* ScriptInfo section.
C3_OneScriptInfoFirst ==
  Parsed =>
    /\ sections # <<>>
    /\ sections[1].kind = "ScriptInfo"
    /\ \A i \in 2..Len(sections) : sections[i].kind # "ScriptInfo"

\* C4: when the first line, without a leading BOM, is not exactly
\* `[Script Info]`, the parse fails with MissingScriptInfo at line 1.
C4_MissingHeaderAtLineOne ==
  (/\ input # <<>>
   /\ (IF starts_with(InputLine(1), BOM) THEN Tail(InputLine(1)) ELSE InputLine(1))
        # "[Script Info]")
    => result = Failed(Error("MissingScriptInfo", 1))

\* C5: a text that starts with a BOM is accepted exactly when the text
\* without the BOM is, and gives the same Document.
C5_BomIsStripped ==
  (/\ pc = "returned"
   /\ input # <<>>
   /\ starts_with(input[1], BOM)
   /\ NoReadFailure)
    => LET t == parse_with(entry, <<Tail(input[1])>> \o Tail(input), overflow_checks)
       IN  /\ Parsed <=> t.tag = "Ok"
           /\ Parsed => sections = t.sections

\* the section a header line at position i has to give, by C6
RECURSIVE C6_Expected(_)
C6_Expected(i) ==
  IF i > Len(input) THEN <<>>
  ELSE (IF i = 1 THEN <<[kind |-> "ScriptInfo", title |-> ""]>>
        ELSE IF InputLine(i) = "[V4+ Styles]" THEN <<[kind |-> "Styles", title |-> ""]>>
        ELSE IF InputLine(i) = "[Events]" THEN <<[kind |-> "Events", title |-> ""]>>
        ELSE IF Bracketed(InputLine(i))
             THEN <<[kind |-> "Generic",
                     title |-> SubSeq(InputLine(i), 2, Len(InputLine(i)) - 1)]>>
        ELSE <<>>)
       \o C6_Expected(i + 1)

\* C6: a returned Document holds one section per header line, in input
\* order, of the kind (and title) the header line names; the headers after
\* the first give Styles, Events or Generic sections.
C6_OneSectionPerHeader ==
  Parsed =>
    [i \in 1..Len(sections) |-> [kind |-> sections[i].kind, title |-> sections[i].title]]
      = C6_Expected(1)

\* C7: a Style row, or an event row, that comes before any Format line of
\* its own section instance fails the parse with MissingStyleFormat at the
\* line of the row, whatever earlier sections declared.
C7_FormatIsPerInstance ==
  (/\ pc # "first"
   /\ StyleRowAt(LastLine) \/ EventRowAt(LastLine)
   /\ FormatLines(LastLine) = {})
    => result = Failed(Error("MissingStyleFormat", LastLine))

\* C7 happens: the second [V4+ Styles] section gets a row and no Format,
\* the first one had a Format.
C7_Witness ==
  /\ input = <<"[Script Info]", "[V4+ Styles]", "Format: Fontsize, Start, Name",
               "[V4+ Styles]", "Style: 12,x">>
  /\ result = Failed(Error("MissingStyleFormat", 5))

\* the Format names in force for the row at line n, and the names that get
\* a token of the row
C8_Format(n) ==
  split(SubSeq(InputLine(CHOOSE j \in FormatLines(n) : \A k \in FormatLines(n) : k <= j),
               9, Len(InputLine(CHOOSE j \in FormatLines(n) : \A k \in FormatLines(n) : k <= j))),
        ", ")
C8_Data(n) == split_once(InputLine(n), ": ").v[2]
C8_Assigned(n) ==
  {C8_Format(n)[i] : i \in 1..Min(Len(C8_Format(n)), Len(split(C8_Data(n), ",")))}
C8_EventTokens(n) == splitn(Len(C8_Format(n)), C8_Data(n), ",")
C8_LastSection == sections[Len(sections)]

\* C8: a row whose Format names only some fields, or that has fewer tokens
\* than names, is accepted when the tokens it has are valid, and every field
\* without a token has the value of Style::default() / Event::default().
C8_OmittedFieldsKeepDefault ==
  /\ (/\ pc # "first" /\ StyleRowAt(LastLine) /\ FormatLines(LastLine) # {}
      /\ NoReadFailure
      /\ \A i \in 1..Min(Len(C8_Format(LastLine)), Len(split(C8_Data(LastLine), ","))) :
           C8_Format(LastLine)[i] \in DOMAIN StyleFieldOf
             => StyleValue(C8_Format(LastLine)[i], split(C8_Data(LastLine), ",")[i]).some)
       => /\ Accepted
          /\ C8_LastSection.styles # <<>>
          /\ \A name \in (DOMAIN StyleFieldOf) \ C8_Assigned(LastLine) :
               C8_LastSection.styles[Len(C8_LastSection.styles)][StyleFieldOf[name]]
                 = Style_default[StyleFieldOf[name]]
          /\ "Fontsize" \notin C8_Assigned(LastLine)
               => C8_LastSection.styles[Len(C8_LastSection.styles)].font_size = 20
          /\ "MarginL" \notin C8_Assigned(LastLine)
               => C8_LastSection.styles[Len(C8_LastSection.styles)].margin_l = 10
  /\ (/\ pc # "first" /\ EventRowAt(LastLine) /\ FormatLines(LastLine) # {}
      /\ NoReadFailure
      /\ \A i \in 1..Len(C8_EventTokens(LastLine)) :
           C8_Format(LastLine)[i] \in DOMAIN EventFieldOf
             => EventValue(C8_Format(LastLine)[i], C8_EventTokens(LastLine)[i],
                           overflow_checks).some)
       => /\ Accepted
          /\ C8_LastSection.events # <<>>
          /\ \A name \in (DOMAIN EventFieldOf) \ C8_Assigned(LastLine) :
               C8_LastSection.events[Len(C8_LastSection.events)][EventFieldOf[name]]
                 = Event_default[EventFieldOf[name]]
          /\ "Style" \notin C8_Assigned(LastLine)
               => C8_LastSection.events[Len(C8_LastSection.events)].style = "Default"

\* C8 happens: a Style row with two tokens under a Format of three names,
\* of which only Fontsize and Name are style fields, is accepted.
C8_Witness ==
  /\ pc = "body"
  /\ input = <<"[Script Info]", "[V4+ Styles]", "Format: Fontsize, Start, Name", "Style: 12,x">>
  /\ C8_LastSection.styles[1].font_size = 12
  /\ C8_LastSection.styles[1].name = "Default"
  /\ C8_LastSection.styles[1].margin_v = 10

\* the sections a parse holds after the lines before the last one
C9_Before == parse_with(entry, SubSeq(input, 1, LastLine - 1), overflow_checks).sections
C9_Handled ==
  process_line(C9_Before[Len(C9_Before)], Line_parse(InputLine(LastLine)), overflow_checks)

\* C9: when the handler of the open section rejects a line, the parse
\* returns that error with the number of that line and no Document, and
\* nothing read or done later changes the outcome.
C9_FailFast ==
  /\ [](( /\ pc # "first" /\ LastLine >= 2
          /\ ~Bracketed(InputLine(LastLine))
          /\ Line_parse(InputLine(LastLine)) # NoLine
          /\ ~C9_Handled.ok /\ ~C9_Handled.panic)
         => /\ result = Failed(Error(C9_Handled.err.kind, LastLine))
            /\ sections = <<>>)
  /\ [][result.tag = "Err" => UNCHANGED <<input, result, sections>>]_vars

\* C9 happens: a Style row in an [Events] section is rejected at line 3.
C9_Witness ==
  /\ input = <<"[Script Info]", "[Events]", "Style: 12,x">>
  /\ result = Failed(Error("InvalidEventType", 3))

\* C10: an error carries the 1-based number of the line that caused it: the
\* line just taken for handler and header errors, the line being read for
\* an I/O error.
C10_ErrorLineIsOneBased ==
  result.tag = "Err" =>
    /\ result.err.line >= 1
    /\ result.err.line =
         (IF result.err.kind = "Io" THEN Len(input) + 1
          ELSE IF input = <<>> THEN 1 ELSE Len(input))

(***************************************************************************)
(* C11..C20.                                                               *)
(***************************************************************************)
\* a raw line that is no header and that Line::parse does not classify
C11_Dropped(raw) ==
  /\ ~Bracketed(lines_item(raw))
  /\ Line_parse(lines_item(raw)) = NoLine

\* the input without such lines after the first line
C11_Kept == <<input[1]>> \o SelectSeq(Tail(input), LAMBDA raw : ~C11_Dropped(raw))

C11_Same(expected) == expected.tag = "Ok" => result = expected

\* C11: when the input without its unclassifiable lines (after the first
\* line) parses to a Document, the input itself parses to the same Document
\* and to no error: such lines are dropped in every section kind.
C11_NoMatchLinesAreDropped ==
  (pc = "returned" /\ input # <<>> /\ NoReadFailure)
    => C11_Same(parse_with(entry, C11_Kept, overflow_checks))

\* C11 happens: an unclassifiable line in a ScriptInfo and in a Styles section.
C11_Witness ==
  /\ pc = "returned"
  /\ input = <<SCRIPT_INFO, "no match", "[V4+ Styles]", "no match", "[Events]">>
  /\ result = Returned(<<ScriptInfo_new, StylesSection_new, EventsSection_new>>)

\* the sections hold lines only
C12_LinesOnly == \A i \in 1..Len(sections) : sections[i].kind \in {"ScriptInfo", "Generic"}

\* the lines of the input after the first that are headers or classified
C12_Stored ==
  SelectSeq([i \in 1..(Len(input) - 1) |-> InputLine(i + 1)],
            LAMBDA l : Bracketed(l) \/ Line_parse(l) # NoLine)

\* C12: every line stored in a ScriptInfo or Generic section is written as
\* a text that classifies back to the same line, and the saved text of a
\* Document of such sections is the header line followed by the headers and
\* the classifiable lines of the input, unchanged and in their order.
C12_LinesAreVerbatim ==
  /\ \A i \in 1..Len(sections) :
        sections[i].kind \in {"ScriptInfo", "Generic"} =>
          \A j \in 1..Len(sections[i].lines) :
            Line_parse(Line_to_ass(sections[i].lines[j])) = sections[i].lines[j]
  /\ (pc = "saved" /\ C12_LinesOnly) => written = <<SCRIPT_INFO>> \o C12_Stored

\* C12 happens: a comment, a variable, an empty and an encoded line are saved.
C12_Witness ==
  /\ pc = "saved"
  /\ input = <<SCRIPT_INFO, "; note", "Title: x", "[Fonts]", "AB">>
  /\ written = <<SCRIPT_INFO, "; note", "Title: x", "[Fonts]", "AB">>

\* the block of one section as the claim words it
C13_Block(sec) ==
  CASE sec.kind = "ScriptInfo" ->
         <<"[Script Info]">> \o [j \in 1..Len(sec.lines) |-> Line_to_ass(sec.lines[j])]
    [] sec.kind = "Generic" ->
         <<"[" \o sec.title \o "]">> \o [j \in 1..Len(sec.lines) |-> Line_to_ass(sec.lines[j])]
    [] sec.kind = "Styles" ->
         <<"[V4+ Styles]", STYLES_FORMAT>>
           \o [j \in 1..Len(sec.styles) |-> Style_to_ass(sec.styles[j])] \o <<"">>
    [] sec.kind = "Events" ->
         <<"[Events]", EVENTS_FORMAT>>
           \o [j \in 1..Len(sec.events) |-> Event_to_ass(sec.events[j])] \o <<"">>

\* the blocks of the sections from the i-th on, in stored order
RECURSIVE C13_Blocks(_)
C13_Blocks(i) ==
  IF i > Len(sections) THEN <<>> ELSE C13_Block(sections[i]) \o C13_Blocks(i + 1)

\* C13: the saved text is the blocks of the stored sections in stored
\* order, one per section: header, canonical Format, one row per stored
\* style or event and one blank line for Styles and Events, header and
\* stored lines alone for ScriptInfo and Generic.
C13_OneBlockPerSection ==
  pc = "saved" => written = C13_Blocks(1)

\* C13 happens: a Styles block with one row between two blocks of lines.
C13_Witness ==
  /\ pc = "saved"
  /\ Len(sections) = 2 /\ sections[2].kind = "Styles" /\ Len(sections[2].styles) = 1
  /\ Len(written) = 5
  /\ written[1] = "[Script Info]" /\ written[2] = "[V4+ Styles]"
  /\ written[3] = STYLES_FORMAT /\ written[5] = ""

\* `&H` followed by exactly 8 hex digits
C14_WellFormed(s) == Len(s) = 10 /\ starts_with(s, "&H") /\ AllDigits(SubSeq(s, 3, 10), 16)

\* the byte that two hex digits spell
C14_Byte(pair) == 16 * HexVal(CharAt(pair, 1)) + HexVal(CharAt(pair, 2))

\* a text with its letters a..f in uppercase
RECURSIVE C14_Upper(_)
C14_Upper(s) ==
  IF s = "" THEN ""
  ELSE (IF Find("abcdef", CharAt(s, 1)) > 0
        THEN CharAt("ABCDEF", Find("abcdef", CharAt(s, 1))) ELSE CharAt(s, 1))
         \o C14_Upper(Tail(s))

\* C14: on `&H` and exactly 8 hex digits of either case Colour::from_ass
\* succeeds, alpha, blue, green and red are the four digit pairs in that
\* order, and Display writes `&H` and the same digits in uppercase.
C14_ColourCodec ==
  /\ (call.fn = "from_ass" /\ C14_WellFormed(call.arg)) =>
        call.ret = [alpha |-> C14_Byte(SubSeq(call.arg, 3, 4)),
                    blue |-> C14_Byte(SubSeq(call.arg, 5, 6)),
                    green |-> C14_Byte(SubSeq(call.arg, 7, 8)),
                    red |-> C14_Byte(SubSeq(call.arg, 9, 10))]
  /\ (call.fn = "Colour_to_string" /\ C14_WellFormed(call.origin)) =>
        call.ret = "&H" \o C14_Upper(SubSeq(call.origin, 3, 10))

\* C14 happens: mixed-case digits are decoded and written back in uppercase.
C14_Witness ==
  /\ call.fn = "Colour_to_string"
  /\ call.origin = "&H1afFB700"
  /\ call.arg = [alpha |-> 26, blue |-> 255, green |-> 183, red |-> 0]
  /\ call.ret = "&H1AFFB700"

\* a duration cut down to a whole number of centiseconds
C15_Truncated(d) == [secs |-> d.secs, nanos |-> (d.nanos \div 10000000) * 10000000]

\* two decimal digits that spell a number below `limit`
C15_TwoDigits(t, limit) == Len(t) = 2 /\ AllDigits(t, 10) /\ DigitsValue(t, 10) < limit

\* a text `H:MM:SS.CC` with minutes and seconds below 60
C15_Shape(t) ==
  /\ Len(t) >= 10
  /\ AllDigits(SubSeq(t, 1, Len(t) - 9), 10)
  /\ CharAt(t, Len(t) - 8) = ":" /\ C15_TwoDigits(SubSeq(t, Len(t) - 7, Len(t) - 6), 60)
  /\ CharAt(t, Len(t) - 5) = ":" /\ C15_TwoDigits(SubSeq(t, Len(t) - 4, Len(t) - 3), 60)
  /\ CharAt(t, Len(t) - 2) = "." /\ C15_TwoDigits(SubSeq(t, Len(t) - 1, Len(t)), 100)

\* C15: the timestamp written for a duration d has minutes and seconds
\* below 60 and centiseconds below 100 on 2 digits each, and it is read
\* back as d cut down to whole centiseconds: d itself when d is a whole
\* number of centiseconds, never a duration above d.
C15_TimestampTruncates ==
  /\ call.fn = "AssDuration_to_string" => C15_Shape(call.ret)
  /\ (call.fn = "ass_timestamp_to_duration" /\ call.kind = "duration") =>
        /\ call.ret = [some |-> TRUE, panic |-> FALSE, v |-> C15_Truncated(call.origin)]
        /\ (call.origin.nanos % 10000000 = 0 => call.ret.v = call.origin)

\* C15 happens: 59.995 s is written as 0:00:59.99 and read back as 59.99 s.
C15_Witness ==
  /\ call.kind = "duration" /\ call.fn = "ass_timestamp_to_duration"
  /\ call.origin = Duration(59, 995000000)
  /\ call.arg = "0:00:59.99"
  /\ call.ret.v = Duration(59, 990000000)

\* a duration and an offset in milliseconds
C16_Millis(d) == d.secs * 1000 + (d.nanos \div 1000000)
C16_Offset(f) == (IF f.neg THEN -1 ELSE 1) * ((f.m * 1000) \div Pow10(f.k))

\* old value plus s, or max(0, old value - |s|) for a negative s
C16_Moved(old, f) ==
  IF C16_Offset(f) >= 0 THEN C16_Millis(old) + C16_Offset(f)
  ELSE IF C16_Millis(old) + C16_Offset(f) < 0 THEN 0
  ELSE C16_Millis(old) + C16_Offset(f)

\* C16: Event::shift_by(s) adds s to start and to end for s >= 0, takes |s|
\* off each of them for s < 0, stopping each at zero on its own, and leaves
\* every other field of the event as it was.
C16_ShiftSaturatesAtZero ==
  call.fn = "shift_by" =>
    /\ C16_Millis(call.ret.start) = C16_Moved(call.arg.event.start, call.arg.seconds)
    /\ C16_Millis(call.ret.end) = C16_Moved(call.arg.event.end, call.arg.seconds)
    /\ call.ret.start.nanos % 1000000 = 0 /\ call.ret.end.nanos % 1000000 = 0
    /\ call.ret.start.nanos < 1000000000 /\ call.ret.end.nanos < 1000000000
    /\ [call.ret EXCEPT !.start = ZERO, !.end = ZERO]
         = [call.arg.event EXCEPT !.start = ZERO, !.end = ZERO]

\* C16 happens: shifted by -1.5 s, a start of 1 s stops at zero while the
\* end of 2.5 s becomes 1 s.
C16_Witness ==
  /\ call.fn = "shift_by"
  /\ call.arg.seconds = F32(TRUE, 15, 1)
  /\ call.arg.event.start = Duration(1, 0) /\ call.arg.event.end = Duration(2, 500000000)
  /\ call.ret.start = ZERO /\ call.ret.end = Duration(1, 0)

\* the texts of the modelled entries that hold a Japanese character
C17_JapaneseTexts == {"\\u{3042}", "A \\u{FF71}", "\\u{4E2D}"}

C17_AnyJapanese(dialogue) == \E i \in 1..Len(dialogue) : dialogue[i].text \in C17_JapaneseTexts

C18_CommentLine(l) ==
  l.tag = "Comment" \/ (l.tag = "Variable" /\ starts_with(l.s, "Comment: "))

\* the section with these lines and events, all else as in sec
C18_With(sec, lines, events) == [sec EXCEPT !.lines = lines, !.events = events]

\* C18: Section::remove_comments removes the comment items and nothing
\* else: from a ScriptInfo or Generic section every `;` line and every
\* `Comment: ...` variable, the other lines kept in order; from an Events
\* section the events of kind Comment; from a Styles section nothing; and a
\* second application changes nothing.
C18_RemovesExactlyComments ==
  /\ call.fn = "remove_comments" =>
       call.ret =
         CASE call.arg.kind \in {"ScriptInfo", "Generic"} ->
                C18_With(call.arg, SelectSeq(call.arg.lines, LAMBDA l : ~C18_CommentLine(l)),
                         call.arg.events)
           [] call.arg.kind = "Events" ->
                C18_With(call.arg, call.arg.lines,
                         SelectSeq(call.arg.events, LAMBDA e : e.kind # "Comment"))
           [] call.arg.kind = "Styles" -> call.arg
  /\ call.fn = "remove_comments_again" => call.ret = call.arg

\* C18 happens: a `Comment: x` variable and a `;` line are removed around
\* a variable whose value is `Comment`, and the second application has run.
C18_Witness ==
  /\ call.fn = "remove_comments_again"
  /\ call.origin.kind = "ScriptInfo"
  /\ call.origin.lines = <<Variable("Comment: x"), Variable("Title: Comment"), Comment(" note")>>
  /\ call.ret.lines = <<Variable("Title: Comment")>>

\* HH:MM:SS,mmm with two digits for hours, minutes and seconds and three for
\* the milliseconds
C19_Time(t) ==
  /\ Len(t) = 12
  /\ AllDigits(SubSeq(t, 1, 2), 10) /\ CharAt(t, 3) = ":"
  /\ AllDigits(SubSeq(t, 4, 5), 10) /\ CharAt(t, 6) = ":"
  /\ AllDigits(SubSeq(t, 7, 8), 10) /\ CharAt(t, 9) = ","
  /\ AllDigits(SubSeq(t, 10, 12), 10)

\* a block whose first line break is at i: a position without sign or
\* leading zero, the two times around ` --> `, a line break and the text
C19_BlockAt(s, i) ==
  /\ i > 1 /\ AllDigits(SubSeq(s, 1, i - 1), 10) /\ CharAt(s, 1) # "0"
  /\ Len(s) >= i + 30
  /\ C19_Time(SubSeq(s, i + 1, i + 12))
  /\ SubSeq(s, i + 13, i + 17) = " --> "
  /\ C19_Time(SubSeq(s, i + 18, i + 29))
  /\ CharAt(s, i + 30) = "\n"

C19_Block(s) == C19_BlockAt(s, Find(s, "\n"))

\* C19: an SRT block `<position>`, `HH:MM:SS,mmm --> HH:MM:SS,mmm`, `<text>`
\* parses into a Dialogue, and formatting that Dialogue gives the block back.
C19_DialogueRoundTrip ==
  (call.kind = "block" /\ C19_Block(call.origin)) =>
    /\ call.fn = "from_str" => call.ret.ok
    /\ call.fn = "to_string" => call.ret = call.origin

\* start, end and text of each line
C20_Lines(l) == [i \in 1..Len(l) |-> <<l[i].start, l[i].end, l[i].text>>]

\* every run of consecutive lines with the same start and end replaced by
\* one line, the texts joined in order with sep between them
RECURSIVE C20_Merged(_, _)
C20_Merged(l, sep) ==
  IF Len(l) <= 1 THEN l
  ELSE IF l[1][1] = l[2][1] /\ l[1][2] = l[2][2]
       THEN C20_Merged(<<<<l[1][1], l[1][2], l[1][3] \o sep \o l[2][3]>>>> \o Tail(Tail(l)), sep)
  ELSE <<l[1]>> \o C20_Merged(Tail(l), sep)

\* C20: cleanup with merge_simultaneous replaces every run of consecutive
\* lines with the same start and end, of whatever length, by one line whose
\* text is the texts of the run joined top to bottom with a line break
\* between each, for SRT dialogue and for ASS events alike, so that no
\* text of the input is missing from the output.
C20_MergeSimultaneous ==
  /\ (call.fn = "cleanup" /\ call.kind = "cleanup_srt" /\ call.arg.merge_simultaneous) =>
       C20_Lines(call.ret) = C20_Merged(C20_Lines(call.arg.dialogue), "\n")
  /\ (call.fn = "cleanup" /\ call.kind = "cleanup_ass" /\ call.arg.args.merge_simultaneous
        /\ call.arg.args.dialogue_from = {}) =>
       C20_Lines(call.ret) = C20_Merged(C20_Lines(call.arg.events), "\\N")

\* the names of the styles of a Styles section, the style names of the
\* events of an Events section
C21_StyleNames(sec) == {sec.styles[i].name : i \in 1..Len(sec.styles)}
C21_Referenced(sec) == {sec.events[i].style : i \in 1..Len(sec.events)}

\* C21: after a cleanup with unused_styles every style left in the Styles
\* section is the style of at least one event, and every style of the
\* input that an event references is still there.
C21_UnusedStylesRemoved ==
  (call.kind = "cleanup_doc" /\ call.fn = "cleanup" /\ call.arg.args.unused_styles) =>
    /\ C21_StyleNames(call.ret[2]) \subseteq C21_Referenced(call.ret[3])
    /\ (C21_Referenced(call.ret[3]) \cap C21_StyleNames(call.arg.sections[2]))
         \subseteq C21_StyleNames(call.ret[2])

\* a row with a bad integer, colour or float under the Format Name,
\* Fontsize, PrimaryColour, ScaleX, or with a bad integer or timestamp under
\* the Format Layer, Start, Text
C22_BadRow ==
  /\ call.kind = "rows" /\ call.fn = "process_line"
  /\ \/ /\ call.arg.sec.kind = "Styles"
        /\ call.arg.sec.format = <<"Name", "Fontsize", "PrimaryColour", "ScaleX">>
        /\ call.arg.line \in {"Style: A,x,&H00FFFFFF,100", "Style: A,12,red,100",
                              "Style: A,12,&H00FFFFFF,wide"}
     \/ /\ call.arg.sec.kind = "Events"
        /\ call.arg.sec.format = <<"Layer", "Start", "Text">>
        /\ call.arg.line \in {"Dialogue: x,0:00:01.50,hi", "Dialogue: 0,soon,hi"}

\* a Style or event row given to a section that has seen no Format line
C22_RowBeforeFormat ==
  /\ call.kind = "rows" /\ call.fn = "process_line" /\ call.arg.sec.format = <<>>
  /\ \/ call.arg.sec.kind = "Styles" /\ starts_with(call.arg.line, "Style: ")
     \/ call.arg.sec.kind = "Events" /\ starts_with(call.arg.line, "Dialogue: ")

\* the row was rejected with this kind and nothing was stored for it
C22_Rejected(kind) ==
  /\ ~call.ret.ok /\ ~call.ret.panic /\ call.ret.err.kind = kind
  /\ call.ret.sec.styles = call.arg.sec.styles
  /\ call.ret.sec.events = call.arg.sec.events

C23_Data(line) == SubSeq(line, Find(line, ": ") + 2, Len(line))

\* the number of commas of a text
C23_Commas(data) == Cardinality({i \in 1..Len(data) : CharAt(data, i) = ","})

\* what follows the k-th comma of a text that holds k commas or more
RECURSIVE C23_After(_, _)
C23_After(data, k) ==
  IF k = 0 THEN data ELSE C23_After(SubSeq(data, Find(data, ",") + 1, Len(data)), k - 1)

\* the p-th piece of a text cut at every comma
C23_Piece(data, p) ==
  IF Find(C23_After(data, p - 1), ",") = 0 THEN C23_After(data, p - 1)
  ELSE SubSeq(C23_After(data, p - 1), 1, Find(C23_After(data, p - 1), ",") - 1)

\* the position of a name in a Format, 0 when it is not there
C23_Position(format, name) ==
  IF \E i \in 1..Len(format) : format[i] = name
  THEN CHOOSE i \in 1..Len(format) : format[i] = name ELSE 0

\* a row of the section's kind was stored
C23_Stored(kind, key) ==
  /\ call.kind = "rows" /\ call.fn = "process_line" /\ call.ret.ok
  /\ call.arg.sec.kind = kind /\ starts_with(call.arg.line, key)

C23_NewEvent == call.ret.sec.events[Len(call.ret.sec.events)]
C23_NewStyle == call.ret.sec.styles[Len(call.ret.sec.styles)]

\* C23: an Events row under a Format of n names is cut into at most n
\* tokens, so that the n-th field takes all that follows the first n - 1
\* commas, commas included; a Styles row is cut at every comma, its tokens
\* go to the Format names by position and the tokens beyond the names are
\* ignored.
C23_TokenSplitting ==
  /\ (C23_Stored("Events", "Dialogue: ")
       /\ C23_Commas(C23_Data(call.arg.line)) >= Len(call.arg.sec.format) - 1) =>
       /\ Len(call.ret.sec.events) = Len(call.arg.sec.events) + 1
       /\ call.arg.sec.format[Len(call.arg.sec.format)] = "Text" =>
            C23_NewEvent.text = C23_After(C23_Data(call.arg.line), Len(call.arg.sec.format) - 1)
       /\ call.arg.sec.format[1] = "Text" =>
            C23_NewEvent.text = C23_Piece(C23_Data(call.arg.line), 1)
  /\ C23_Stored("Styles", "Style: ") =>
       /\ Len(call.ret.sec.styles) = Len(call.arg.sec.styles) + 1
       /\ C23_NewStyle.name =
            C23_Piece(C23_Data(call.arg.line), C23_Position(call.arg.sec.format, "Name"))
       /\ call.arg.line = "Style: A,12,&H00FFFFFF,100,extra,more" =>
            C23_NewStyle = [Style_default EXCEPT !.name = "A", !.font_size = 12,
                                                 !.primary_colour = Colour(255, 255, 255, 0),
                                                 !.scale_x = F32(FALSE, 100, 0)]

\* C23 happens: the Text of an event row keeps its two commas.
C23_Witness ==
  /\ C23_Stored("Events", "Dialogue: ")
  /\ call.arg.sec.format = <<"Layer", "Start", "Text">>
  /\ call.arg.line = "Dialogue: 0,0:00:01.50,a,b,c"
  /\ C23_NewEvent.text = "a,b,c"

\* the names of the Format lines given to the sections
C24_Names(line) ==
  CASE line = "Format: Fontsize, Name" -> <<"Fontsize", "Name">>
    [] line = "Format: Name, Fontsize, PrimaryColour, ScaleX" ->
         <<"Name", "Fontsize", "PrimaryColour", "ScaleX">>
    [] line = "Format: Layer, Start, Text" -> <<"Layer", "Start", "Text">>
    [] line = "Format: Text, Layer" -> <<"Text", "Layer">>

\* the section was given these two lines and has handled the second
C24_After(first, second) ==
  /\ call.kind = "rows" /\ call.fn = "process_line"
  /\ call.origin.rest = <<first, second>> /\ call.arg.rest = <<>>

\* the row was stored behind what the section held at first
C24_Appended ==
  /\ call.ret.ok
  /\ Len(call.ret.sec.styles) + Len(call.ret.sec.events)
       = Len(call.origin.sec.styles) + Len(call.origin.sec.events) + 1
  /\ SubSeq(call.ret.sec.styles, 1, Len(call.origin.sec.styles)) = call.origin.sec.styles
  /\ SubSeq(call.ret.sec.events, 1, Len(call.origin.sec.events)) = call.origin.sec.events

\* C24: in a Styles or Events section a Format line replaces the whole
\* list of field names and leaves the stored styles or events as they are;
\* a later row is mapped by the most recent Format line only, whatever the
\* list was before.
C24_FormatReplacesList ==
  /\ (call.kind = "rows" /\ call.fn = "process_line" /\ starts_with(call.arg.line, "Format: ")) =>
       /\ call.ret.ok
       /\ call.ret.sec.format = C24_Names(call.arg.line)
       /\ call.ret.sec.styles = call.arg.sec.styles
       /\ call.ret.sec.events = call.arg.sec.events
  /\ C24_After("Format: Fontsize, Name", "Style: 12,A,B") =>
       /\ C24_Appended
       /\ call.ret.sec.styles[Len(call.ret.sec.styles)]
            = [Style_default EXCEPT !.name = "A", !.font_size = 12]
  /\ C24_After("Format: Name, Fontsize, PrimaryColour, ScaleX", "Style: 12,A,B") =>
       ~call.ret.ok /\ call.ret.err.kind = "InvalidStyle"
  /\ C24_After("Format: Text, Layer", "Dialogue: hi,3") =>
       /\ C24_Appended
       /\ call.ret.sec.events[Len(call.ret.sec.events)]
            = [Event_default EXCEPT !.text = "hi", !.layer = 3]
  /\ C24_After("Format: Layer, Start, Text", "Dialogue: hi,3") =>
       ~call.ret.ok /\ call.ret.err.kind = "InvalidStyle"

\* C24 happens: a Styles section that held a style under four names is given
\* a Format of two names and then a row that only the two names can map.
C24_Witness ==
  /\ C24_After("Format: Fontsize, Name", "Style: 12,A,B")
  /\ call.origin.sec.format = <<"Name", "Fontsize", "PrimaryColour", "ScaleX">>
  /\ Len(call.origin.sec.styles) = 1
  /\ call.ret.sec.format = <<"Fontsize", "Name">>
  /\ Len(call.ret.sec.styles) = 2 /\ call.ret.sec.styles[2].name = "A"

\* the characters whose byte is in 33..96 (the byte 96 cannot be written)
C25_EncodedChars ==
  "!\"#$%&'()*+,-./0123456789:;<=>?@ABCDEFGHIJKLMNOPQRSTUVWXYZ[\\]^_"

\* a text of one-byte characters, all of them in 33..96, at most 80 of them
C25_Encodable(s) ==
  /\ Len(s) <= 80
  /\ \A i \in 1..Len(s) :
       \E j \in 1..Len(C25_EncodedChars) : SubSeq(s, i, i) = SubSeq(C25_EncodedChars, j, j)

\* the kind and the text of the Line that a text is to give
C25_Class(s) ==
  IF s = "" THEN <<"Empty", "">>
  ELSE IF SubSeq(s, 1, 1) = ";" THEN <<"Comment", SubSeq(s, 2, Len(s))>>
  ELSE IF \E i \in 1..(Len(s) - 1) : SubSeq(s, i, i + 1) = ": " THEN <<"Variable", s>>
  ELSE IF C25_Encodable(s) THEN <<"Encoded", s>>
  ELSE <<"None", "">>

\* C25: Line::parse takes the first rule that fits and gives one kind at
\* most: the empty text is Empty; else a text that starts with `;` is a
\* Comment holding the rest, `: ` or not; else a text holding `: ` is a
\* Variable holding the whole text; else a text of at most 80 bytes, all in
\* 33..96, is Encoded; any other text has no class.
C25_LineParsePriority ==
  (call.kind = "text" /\ call.fn = "Line_parse") =>
    <<call.ret.tag, call.ret.s>> = C25_Class(call.arg)

\* C25 happens: a text that starts with `;` and holds `: ` is a Comment.
C25_Witness ==
  /\ call.kind = "text" /\ call.fn = "Line_parse"
  /\ call.arg = "; a: b" /\ call.ret = Comment(" a: b")

\* a text that Line::parse is to class as Encoded
C26_Encoded(s) ==
  /\ s # "" /\ SubSeq(s, 1, 1) # ";" /\ Len(s) <= 80
  /\ \A i \in 1..Len(s) :
       \E j \in 1..Len(C25_EncodedChars) : SubSeq(s, i, i) = SubSeq(C25_EncodedChars, j, j)

\* every Encoded line of the Document is well formed and in a Generic section
C26_Stored ==
  (pc = "returned" /\ result.tag = "Ok") =>
    \A i \in 1..Len(sections) : \A j \in 1..Len(sections[i].lines) :
      sections[i].lines[j].tag = "Encoded" =>
        sections[i].kind = "Generic" /\ C26_Encoded(sections[i].lines[j].s)

\* a line that is Encoded is read while a ScriptInfo section is open: the
\* parse fails with Invalid at that line
C26_Refused ==
  (/\ pc = "body" /\ sections # <<>> /\ sections[Len(sections)].kind = "ScriptInfo"
   /\ Len(input') = Len(input) + 1
   /\ C26_Encoded(input'[Len(input')]))
    => result' = Failed(Error("Invalid", Len(input')))

\* C26: in every Document that a parse returns, every Encoded line is not
\* empty, at most 80 bytes long with every byte in 33..96, and in a Generic
\* section; an Encoded line that reaches a ScriptInfo section fails the
\* parse with the Invalid error at that line.
C26_EncodedLines == [](C26_Stored) /\ [][C26_Refused]_vars

\* C26 happens: a Document is returned with an Encoded line in a Generic
\* section.
C26_Witness ==
  /\ pc = "returned" /\ result.tag = "Ok"
  /\ Len(sections) = 2 /\ sections[2].kind = "Generic"
  /\ sections[1].lines = <<Variable("Title: x")>>
  /\ sections[2].lines = <<Encoded("AB"), Comment(" note")>>

\* the hours, minutes, seconds and centiseconds written in the timestamps
\* whose parts are all unsigned integers
C27_Parts ==
  [t \in {"0:00:01.50", "1:02:03.4", "0:00:00.04", "0:00:00.150", "12:34:56.07",
          "0:59:59.99", "0:00:01.429", "0:00:01.430", "0:00:01.500", "0:00:00.999"} |->
     CASE t = "0:00:01.50" -> <<0, 0, 1, 50>>
       [] t = "1:02:03.4" -> <<1, 2, 3, 4>>
       [] t = "0:00:00.04" -> <<0, 0, 0, 4>>
       [] t = "0:00:00.150" -> <<0, 0, 0, 150>>
       [] t = "12:34:56.07" -> <<12, 34, 56, 7>>
       [] t = "0:59:59.99" -> <<0, 59, 59, 99>>
       [] t = "0:00:01.429" -> <<0, 0, 1, 429>>
       [] t = "0:00:01.430" -> <<0, 0, 1, 430>>
       [] t = "0:00:01.500" -> <<0, 0, 1, 500>>
       [] t = "0:00:00.999" -> <<0, 0, 0, 999>>]

\* H*3600 + MM*60 + SS seconds and f centiseconds
C27_Value(p) ==
  [secs |-> p[1] * 3600 + p[2] * 60 + p[3] + (p[4] \div 100),
   nanos |-> (p[4] % 100) * 10000000]

\* C27: for a timestamp H:MM:SS.f whose parts are all unsigned integers,
\* ass_timestamp_to_duration returns H*3600 + MM*60 + SS seconds and f
\* centiseconds, whatever the number of digits of f, the product
\* f * 10,000,000 being taken without overflow of the unsigned 32 bits.
C27_TimestampValue ==
  (call.kind = "timestamp" /\ call.fn = "ass_timestamp_to_duration"
     /\ call.arg \in DOMAIN C27_Parts) =>
    /\ ~call.ret.panic /\ call.ret.some
    /\ call.ret.v = C27_Value(C27_Parts[call.arg])

\* the input starts with the line `[Script Info]` and holds no byte order mark
C28_Plain ==
  /\ input # <<>> /\ input[1] = "[Script Info]"
  /\ \A i \in 1..Len(input) : Find(input[i], BOM) = 0

\* the entry point that the parse did not go through
C28_Other == IF entry = "from_reader" THEN "from_str" ELSE "from_reader"

\* C28: on a text without byte order mark whose first line is
\* `[Script Info]`, from_reader and from_str give the same outcome: the same
\* sections, or the same error kind at the same line, also when the
\* `[Script Info]` header comes again later in the text.
C28_EntryPointsAgree ==
  (pc = "returned" /\ C28_Plain /\ ~(result.tag = "Err" /\ result.err.kind = "Io")) =>
    result = parse_with(C28_Other, input, overflow_checks)

\* the names of the styles of the Styles section of a from_srt Document
C29_StyleNames == {call.ret[2].styles[i].name : i \in 1..Len(call.ret[2].styles)}

\* C29: in the Document built by Ass::from_srt, whatever the entries hold,
\* the style name of each event is the name of a style of the Document's
\* Styles section.
C29_EventStylesDefined ==
  call.fn = "from_srt" =>
    \A i \in 1..Len(call.ret[3].events) : call.ret[3].events[i].style \in C29_StyleNames

\* the section that is open, the last one
C30_Open == sections[Len(sections)]

\* the step reads one more line, which is no section header, while a section
\* of one of the kinds is open
C30_Reads(kinds) ==
  /\ pc = "body" /\ Len(input') = Len(input) + 1
  /\ sections # <<>> /\ C30_Open.kind \in kinds
  /\ ~get_generic_section_title(lines_item(input'[Len(input')])).some

\* the line that the step reads, as Line::parse sees it
C30_Parsed == Line_parse(lines_item(input'[Len(input')]))

\* the parse stops with the error kind at the line just read
C30_Fails(kind) ==
  /\ pc' = "returned" /\ result' = Failed(Error(kind, Len(input')))

\* the key of a Variable line is no Format and no event kind
C30_UnknownKey ==
  /\ C30_Parsed # NoLine /\ C30_Parsed.tag = "Variable"
  /\ item(C30_Parsed).some
  /\ item(C30_Parsed).v[1] \notin (EventKinds \cup {"Format"})

\* what a line read inside a Styles or Events section does
C30_Step ==
  /\ (C30_Reads({"Styles", "Events"}) /\ C30_Parsed # NoLine /\ C30_Parsed.tag = "Empty") =>
       (pc' = "body" /\ sections' = sections)
  /\ (C30_Reads({"Styles", "Events"}) /\ C30_Parsed # NoLine
        /\ C30_Parsed.tag \in {"Comment", "Encoded"}) => C30_Fails("Invalid")
  /\ (C30_Reads({"Events"}) /\ C30_UnknownKey) => C30_Fails("InvalidEventType")

====
